---- MODULE Spec2Model ----
(***************************************************************************)
(* Session supervision of streamlink-remote: the viewing registry of       *)
(* StreamlinkManager with its port cursor, presence records, idle reaper   *)
(* and the HTTP routes that start and stop sessions; the recording rule    *)
(* engine of RecordingManager; the numeric stream-id codec of the Xtream   *)
(* routes.                                                                 *)
(***************************************************************************)
EXTENDS Integers, Sequences, FiniteSets, TLC

VARIABLES
    now,                \* Date.now(), in ms
    sweepDue,           \* the reaper's setInterval has fired and its callback has not run yet
    nextPort,           \* StreamlinkManager.nextPort
    activeStreams,      \* StreamlinkManager.activeStreams, a Map in insertion order
    clientConnections,  \* StreamlinkManager.clientConnections, a Map
    procs,              \* the child processes of startStream not yet closed, by spawn number,
                        \* each with the state of the closure around it
    spawnCount,         \* number of spawn() calls so far
    odWait,             \* /stream/:channel handlers inside their 500 ms wait, oldest first
    lastConnect,        \* history: time of the last trackClientConnect(channel), per argument
    serverConfig,       \* the serverConfig of the constructor: the port range
    streamEnded,        \* history: the stream:ended events emitted, by the spawn number of the closed process
    serverState         \* the server process: "running", the shutdown signal it is handling, or "exited"

VARIABLES
    codecPhase,         \* "listed" -> "encoded" -> "decoded"
    codecStream,        \* the live stream getXtreamLiveStreams lists, and the band of the entry
    codecStreamId,      \* stream_id of the entry, the text a client puts into /live/u/p/<id>
    codecDecoded        \* channel text and requestedQuality the /live route derives from it

VARIABLES
    ruleEnabled,        \* recording_rules.enabled, by rule id
    polls,              \* checkRecordingRules calls in flight, oldest first
    activeRecordings,   \* RecordingManager.activeRecordings, a Map
    recProcs,           \* the recording processes not yet closed, by spawn number
    recSpawns,          \* number of recording processes spawned so far
    recordings          \* recordings.status of the persisted record, by spawn number

VARIABLES
    matchCall           \* one call of shouldRecord: its arguments and, once returned, its result

VARIABLES
    apiReply            \* the answer startStream last gave at once: the alreadyRunning result, or none

VARIABLES
    cleanup             \* one retention sweep: the recordings table, the recordings directory and the log lines

VARIABLES
    xtream              \* one GET /live request with a numeric id: userIdToChannelMap and the position of the handler

VARIABLES
    staleTimers         \* the 5 s timers of stopStream whose process has exited: process id -> key and number of timers

VARIABLES
    ruleRows            \* the ids of the rows of recording_rules

streamVars == <<now, sweepDue, nextPort, activeStreams, clientConnections, procs, spawnCount,
               odWait, lastConnect, serverConfig, streamEnded, serverState>>

codecVars == <<codecPhase, codecStream, codecStreamId, codecDecoded>>

recVars == <<ruleEnabled, polls, activeRecordings, recProcs, recSpawns, recordings>>

vars == <<streamVars, codecVars, recVars, matchCall, apiReply, cleanup, xtream, staleTimers, ruleRows>>

-----------------------------------------------------------------------------
(* Configuration and bounds *)

streamPortStart == 9000
streamPortEnd == 9000
autoStopTimeout == 120000
autoStopCheckInterval == 30000
recentActivityWindow == 60000

MaxTicks == 1       \* Spec: the clock stops after MaxTicks reaper intervals
MaxSpawns == 2      \* Spec: start requests that reach spawn() or the 500 ms wait
ReaperTicks == 5    \* SpecReaper: reaper intervals
ReaperSpawns == 1   \* SpecReaper: start requests
MaxClients == 1     \* cap of a presence record's reference count
MaxStops == 2       \* cap of the SIGTERMs one process is sent through /api/stream/stop
PoolPortEnd == 9001 \* SpecPool: the last port of a range two ports wide
PoolTicks == 2      \* SpecPool: reaper intervals
PoolSpawns == 3     \* SpecPool: start requests

\* exit codes of a streamlink process: success and failure
ExitCodes == {0, 1}

\* SpecPool: the channel keys of its requests
PoolKeys == {"a", "b", "c"}

\* Channel keys as the routes receive them; "A" and "a" are different registry keys.
Keys == {"a", "A"}

\* String.prototype.toLowerCase on the keys
toLowerCase(k) == IF k = "A" THEN "a" ELSE k

\* config.server.streamPortEnd - config.server.streamPortStart + 1 of /stream/:channel
maxStreams == serverConfig.streamPortEnd - serverConfig.streamPortStart + 1

-----------------------------------------------------------------------------
(* Map helpers over the registry, a sequence of entries in insertion order *)

has(reg, k) == \E i \in 1..Len(reg) : reg[i].channel = k

get(reg, k) == reg[CHOOSE i \in 1..Len(reg) : reg[i].channel = k]

\* Map.set: an existing key keeps its position, a new key is appended
mapSet(reg, e) ==
    IF has(reg, e.channel)
    THEN [i \in 1..Len(reg) |-> IF reg[i].channel = e.channel THEN e ELSE reg[i]]
    ELSE Append(reg, e)

\* Map.delete
mapDelete(reg, k) == SelectSeq(reg, LAMBDA e : e.channel # k)

isStreamActive(k) == has(activeStreams, k)

-----------------------------------------------------------------------------
(* Presence tracking *)

trackClientConnect(cc, k, t) ==
    LET lowerChannel == toLowerCase(k) IN
    IF lowerChannel \in DOMAIN cc
    THEN [cc EXCEPT ![lowerChannel] = [count |-> @.count + 1, lastActivity |-> t]]
    ELSE [x \in DOMAIN cc \cup {lowerChannel} |->
            IF x = lowerChannel THEN [count |-> 1, lastActivity |-> t] ELSE cc[x]]

\* a disconnect that decrements whatever the count is
trackClientDisconnect_Unguarded(cc, k, t) ==
    LET lowerChannel == toLowerCase(k) IN
    IF lowerChannel \in DOMAIN cc
    THEN [cc EXCEPT ![lowerChannel] = [count |-> @.count - 1, lastActivity |-> t]]
    ELSE cc

trackClientDisconnect(cc, k, t) ==
    LET lowerChannel == toLowerCase(k) IN
    IF lowerChannel \in DOMAIN cc /\ cc[lowerChannel].count > 0
    THEN [cc EXCEPT ![lowerChannel] = [count |-> @.count - 1, lastActivity |-> t]]
    ELSE cc

\* the reference count trackClientConnect(k) would produce stays within the cap
canConnect(k) ==
    toLowerCase(k) \in DOMAIN clientConnections
        => clientConnections[toLowerCase(k)].count < MaxClients

noteConnect(k) == [x \in DOMAIN lastConnect \cup {k} |-> IF x = k THEN now ELSE lastConnect[x]]

-----------------------------------------------------------------------------
(* Port allocator *)

\* a cursor that wraps one port late
getNextPortCursor_WrapsLate(p) ==
    IF p > serverConfig.streamPortEnd THEN serverConfig.streamPortStart ELSE p + 1

\* this.nextPort after getNextPort() has returned port p
getNextPortCursor(p) ==
    IF p + 1 > serverConfig.streamPortEnd THEN serverConfig.streamPortStart ELSE p + 1

-----------------------------------------------------------------------------
(* stopStream *)

\* process.kill("SIGTERM") and the 5 s force-kill timer, on the process of the entry
stopStream(ps, reg, k) ==
    IF ~has(reg, k) THEN ps
    ELSE [ps EXCEPT ![get(reg, k).proc] =
            [@ EXCEPT !.terms = @ + 1, !.killTimers = @ + 1]]

RECURSIVE stopEach(_, _, _)
stopEach(ps, reg, ks) ==
    IF ks = <<>> THEN ps
    ELSE stopEach(stopStream(ps, reg, Head(ks)), reg, Tail(ks))

-----------------------------------------------------------------------------
(* Idle reaper *)

shouldAutoStop(e, cc, t) ==
    /\ ~(t - e.startedAt < autoStopTimeout)
    /\ \/ e.channel \notin DOMAIN cc
       \/ t - cc[e.channel].lastActivity > autoStopTimeout

reaped(reg, cc, t) == SelectSeq(reg, LAMBDA e : shouldAutoStop(e, cc, t))

channelsOf(reg) == [i \in 1..Len(reg) |-> reg[i].channel]

\* a sweep that, when it stops a session, also sends SIGTERM to every recording process
_checkAutoStop_StopsRecordings ==
    /\ sweepDue
    /\ LET victims == channelsOf(reaped(activeStreams, clientConnections, now)) IN
        /\ procs' = stopEach(procs, activeStreams, victims)
        /\ clientConnections' =
             [k \in DOMAIN clientConnections \ {victims[i] : i \in 1..Len(victims)}
                |-> clientConnections[k]]
        /\ recProcs' = IF victims = <<>> THEN recProcs
                       ELSE [p \in DOMAIN recProcs |->
                                [recProcs[p] EXCEPT !.killed = TRUE, !.terms = @ + 1]]
    /\ sweepDue' = FALSE
    /\ UNCHANGED <<ruleRows, staleTimers, xtream, cleanup, apiReply, matchCall, codecVars, ruleEnabled, polls, activeRecordings, recSpawns, recordings,
                   serverState, streamEnded, serverConfig, now, nextPort, activeStreams, spawnCount, odWait,
                   lastConnect>>

\* a sweep that deletes the presence record under the lower-cased key of each victim
_checkAutoStop_DeletesLowerCased ==
    /\ sweepDue
    /\ LET victims == channelsOf(reaped(activeStreams, clientConnections, now)) IN
        /\ procs' = stopEach(procs, activeStreams, victims)
        /\ clientConnections' =
             [k \in DOMAIN clientConnections \
                       {toLowerCase(victims[i]) : i \in 1..Len(victims)}
                |-> clientConnections[k]]
    /\ sweepDue' = FALSE
    /\ UNCHANGED <<ruleRows, staleTimers, xtream, cleanup, apiReply, matchCall, codecVars, recVars, serverState, streamEnded, serverConfig, now, nextPort, activeStreams, spawnCount, odWait,
                   lastConnect>>

_checkAutoStop ==
    /\ sweepDue
    /\ LET victims == channelsOf(reaped(activeStreams, clientConnections, now)) IN
        /\ procs' = stopEach(procs, activeStreams, victims)
        /\ clientConnections' =
             [k \in DOMAIN clientConnections \ {victims[i] : i \in 1..Len(victims)}
                |-> clientConnections[k]]
    /\ sweepDue' = FALSE
    /\ UNCHANGED <<ruleRows, staleTimers, xtream, cleanup, apiReply, matchCall, codecVars, recVars, serverState, streamEnded, serverConfig, now, nextPort, activeStreams, spawnCount, odWait,
                   lastConnect>>

\* the timers shorter than the reaper interval (500 ms wait, 3 s fallback, 5 s force
\* kill) have all fired
shortTimersDone ==
    /\ odWait = <<>>
    /\ \A p \in DOMAIN procs : ~procs[p].fallbackArmed /\ procs[p].killTimers = 0
    /\ staleTimers = <<>>

\* 30 s pass: the interval timer fires; its callback runs before the next interval ends,
\* and so does every shorter timer that was pending
AdvanceTime(maxTicks) ==
    /\ ~sweepDue
    /\ shortTimersDone
    /\ now < maxTicks * autoStopCheckInterval
    /\ now' = now + autoStopCheckInterval
    /\ sweepDue' = TRUE
    /\ UNCHANGED <<ruleRows, staleTimers, xtream, cleanup, apiReply, matchCall, codecVars, recVars, serverState, streamEnded, serverConfig, nextPort, activeStreams, clientConnections, procs,
                   spawnCount, odWait, lastConnect>>

-----------------------------------------------------------------------------
(* Admission controller *)

RECURSIVE oldestIdx(_, _, _, _)
\* the loop of getOldestStreamWithoutClients from index i on; 0 is null
oldestIdx(reg, cc, t, i) ==
    IF i > Len(reg) THEN 0
    ELSE LET rest == oldestIdx(reg, cc, t, i + 1)
             lower == toLowerCase(reg[i].channel)
             hasRecentActivity ==
                 lower \in DOMAIN cc /\ t - cc[lower].lastActivity < recentActivityWindow
         IN IF hasRecentActivity THEN rest
            ELSE IF rest = 0 \/ reg[i].startedAt <= reg[rest].startedAt THEN i
            ELSE rest

\* the oldest session whatever its presence record says
getOldestStreamWithoutClients_IgnoresPresence(reg, cc, t) == oldestIdx(reg, <<>>, t, 1)

getOldestStreamWithoutClients(reg, cc, t) == oldestIdx(reg, cc, t, 1)

\* activeStreams.sort((a, b) => a.startedAt - b.startedAt)[0], a stable sort
oldestOf(reg) ==
    CHOOSE i \in 1..Len(reg) :
        \A j \in 1..Len(reg) :
            \/ reg[i].startedAt < reg[j].startedAt
            \/ reg[i].startedAt = reg[j].startedAt /\ i <= j

evictionVictim(reg, cc, t) ==
    LET w == getOldestStreamWithoutClients(reg, cc, t) IN
    IF w # 0 THEN reg[w].channel ELSE reg[oldestOf(reg)].channel

-----------------------------------------------------------------------------
(* startStream *)

\* start requests admitted so far: spawned processes and handlers in their 500 ms wait
requestsUsed == spawnCount + Len(odWait)

\* the closure state startStream creates around spawn() when the key is not registered
spawned(k, route) ==
    [key |-> k, port |-> nextPort, startedAt |-> now, route |-> route,
     st |-> "pending", timeout |-> TRUE, fallbackArmed |-> TRUE, errorHasError |-> FALSE,
     events |-> <<>>,
     killed |-> FALSE, sigkilled |-> FALSE, terms |-> 0, killTimers |-> 0]

\* no startStream call has answered alreadyRunning yet
NoReply == [alreadyRunning |-> FALSE, channel |-> "", port |-> 0]

\* a has-branch of startStream that takes a port before it answers
startStreamExisting_TakesPort(k) ==
    /\ apiReply' = [alreadyRunning |-> TRUE, channel |-> k, port |-> nextPort]
    /\ nextPort' = getNextPortCursor(nextPort)
    /\ UNCHANGED <<procs, spawnCount, activeStreams, streamEnded>>

\* startStream(k) for a key activeStreams has: the existing session is the answer
startStreamExisting(k) ==
    /\ apiReply' = [alreadyRunning |-> TRUE, channel |-> k, port |-> get(activeStreams, k).port]
    /\ UNCHANGED <<nextPort, procs, spawnCount, activeStreams, streamEnded>>

\* a startStream that spawns nothing while the registry is full
doSpawn_RefusesWhenFull(k, route) ==
    IF Len(activeStreams) >= maxStreams
    THEN UNCHANGED <<procs, spawnCount, nextPort>>
    ELSE /\ procs' = [p \in DOMAIN procs \cup {spawnCount + 1} |->
                         IF p = spawnCount + 1 THEN spawned(k, route) ELSE procs[p]]
         /\ spawnCount' = spawnCount + 1
         /\ nextPort' = getNextPortCursor(nextPort)

\* startStream(k) past the activeStreams.has check: getNextPort and spawn
doSpawn(k, route) ==
    /\ procs' = [p \in DOMAIN procs \cup {spawnCount + 1} |->
                    IF p = spawnCount + 1 THEN spawned(k, route) ELSE procs[p]]
    /\ spawnCount' = spawnCount + 1
    /\ nextPort' = getNextPortCursor(nextPort)

\* the promise of process p settles; a timer that later finds `resolved` set does nothing,
\* so its flag is dropped here
settled(pr, outcome) ==
    [pr EXCEPT !.st = outcome, !.timeout = FALSE, !.fallbackArmed = FALSE,
               !.errorHasError = FALSE]

\* this.emit(event, ...) of stream:started or stream:error inside the closure
emit(pr, event) == [pr EXCEPT !.events = Append(@, event)]

\* clearTimeout(timeout)
clearTimeout(pr) == [pr EXCEPT !.timeout = FALSE]

\* a route other than /api/stream/start calls trackClientConnect once its start resolves
routeTracks(route) == route # "api"

\* a resolveSuccess without the test of `resolved`
resolveSuccess_Unguarded(p) ==
    LET pr == procs[p] IN
    /\ activeStreams' = mapSet(activeStreams,
            [channel |-> pr.key, port |-> pr.port, startedAt |-> pr.startedAt, proc |-> p])
    /\ procs' = [procs EXCEPT ![p] = emit(settled(@, "resolved"), "stream:started")]
    /\ UNCHANGED <<clientConnections, lastConnect>>

\* resolveSuccess of process p (a no-op once settled), then the continuation of the route
\* awaiting it
resolveSuccess(p) ==
    LET pr == procs[p] IN
    IF pr.st = "pending"
    THEN /\ routeTracks(pr.route) => canConnect(pr.key)
         /\ activeStreams' = mapSet(activeStreams,
                 [channel |-> pr.key, port |-> pr.port, startedAt |-> pr.startedAt,
                  proc |-> p])
         /\ procs' = [procs EXCEPT ![p] = emit(settled(@, "resolved"), "stream:started")]
         /\ IF routeTracks(pr.route)
            THEN /\ clientConnections' = trackClientConnect(clientConnections, pr.key, now)
                 /\ lastConnect' = noteConnect(pr.key)
            ELSE UNCHANGED <<clientConnections, lastConnect>>
    ELSE UNCHANGED <<activeStreams, procs, clientConnections, lastConnect>>

\* the startup timer has neither fired nor been cleared
timeoutArmed(pr) == pr.timeout

\* rejectError of process p (a no-op once settled); the awaiting route answers 503
\* a rejection that settles the start without the stream:error event
rejectError_Silent(pr) ==
    IF pr.st = "pending" THEN settled(pr, "rejected") ELSE pr

rejectError(pr) ==
    IF pr.st = "pending" THEN emit(settled(pr, "rejected"), "stream:error") ELSE pr

-----------------------------------------------------------------------------
(* Child process events of startStream's closure *)

\* stdout carries "Starting server" or "Opening stream"
StdoutReady(p) ==
    /\ resolveSuccess(p)
    /\ UNCHANGED <<ruleRows, staleTimers, xtream, cleanup, apiReply, matchCall, codecVars, recVars, serverState, streamEnded, serverConfig, now, sweepDue, nextPort, spawnCount, odWait>>

\* stderr carries "Unable to open URL" or "No playable streams found"
StderrFailure(p) ==
    /\ procs' = [procs EXCEPT ![p] = rejectError([clearTimeout(@) EXCEPT !.killed = TRUE])]
    /\ UNCHANGED <<ruleRows, staleTimers, xtream, cleanup, apiReply, matchCall, codecVars, recVars, serverState, streamEnded, serverConfig, now, sweepDue, nextPort, activeStreams,
                   clientConnections, spawnCount, odWait,
                   lastConnect>>

\* a stderr handler that clears the startup timer on any text with "error" in it
StderrError_ClearsTimeout(p) ==
    /\ procs[p].st = "pending"
    /\ procs' = [procs EXCEPT ![p] = clearTimeout([@ EXCEPT !.errorHasError = TRUE])]
    /\ UNCHANGED <<ruleRows, staleTimers, xtream, cleanup, apiReply, matchCall, codecVars, recVars, serverState, streamEnded, serverConfig, now, sweepDue, nextPort, activeStreams,
                   clientConnections, spawnCount, odWait,
                   lastConnect>>

\* stderr carries text with "error" in it and no failure marker
StderrError(p) ==
    /\ procs[p].st = "pending"
    /\ procs' = [procs EXCEPT ![p].errorHasError = TRUE]
    /\ UNCHANGED <<ruleRows, staleTimers, xtream, cleanup, apiReply, matchCall, codecVars, recVars, serverState, streamEnded, serverConfig, now, sweepDue, nextPort, activeStreams,
                   clientConnections, spawnCount, odWait,
                   lastConnect>>

\* the startup timeout of config.timeout seconds
StartupTimeout(p) ==
    /\ timeoutArmed(procs[p])
    /\ procs' = [procs EXCEPT ![p] =
                    IF @.st = "pending"
                    THEN rejectError([clearTimeout(@) EXCEPT !.killed = TRUE])
                    ELSE clearTimeout(@)]
    /\ UNCHANGED <<ruleRows, staleTimers, xtream, cleanup, apiReply, matchCall, codecVars, recVars, serverState, streamEnded, serverConfig, now, sweepDue, nextPort, activeStreams,
                   clientConnections, spawnCount, odWait,
                   lastConnect>>

\* a fallback timer that never assumes success
FallbackTimer_NeverAssumes(p) ==
    /\ procs[p].fallbackArmed
    /\ procs' = [procs EXCEPT ![p].fallbackArmed = FALSE]
    /\ UNCHANGED <<ruleRows, staleTimers, xtream, cleanup, apiReply, matchCall, codecVars, recVars, serverState, streamEnded, serverConfig, now, sweepDue, nextPort, spawnCount, odWait,
                   activeStreams, clientConnections, lastConnect>>

\* the 3 s timer that assumes success
FallbackTimer(p) ==
    /\ procs[p].fallbackArmed
    /\ IF procs[p].errorHasError
       THEN /\ procs' = [procs EXCEPT ![p].fallbackArmed = FALSE]
            /\ UNCHANGED <<activeStreams, clientConnections, lastConnect>>
       ELSE resolveSuccess(p)
    /\ UNCHANGED <<ruleRows, staleTimers, xtream, cleanup, apiReply, matchCall, codecVars, recVars, serverState, streamEnded, serverConfig, now, sweepDue, nextPort, spawnCount, odWait>>

\* a close handler that emits stream:ended only for a session it found registered
emitStreamEnded_OnlyWhenRegistered(log, p, channel, code) ==
    IF has(activeStreams, channel)
    THEN [q \in DOMAIN log \cup {p} |->
             IF q = p THEN <<[channel |-> channel, code |-> code]>> ELSE log[q]]
    ELSE [q \in DOMAIN log \cup {p} |-> IF q = p THEN <<>> ELSE log[q]]

\* this.emit("stream:ended", {channel, code, ...}) in the close handler of process p
emitStreamEnded(log, p, channel, code) ==
    [q \in DOMAIN log \cup {p} |->
        IF q = p THEN <<[channel |-> channel, code |-> code]>> ELSE log[q]]

\* the "close" event, with the exit code of the process
\* a timer of stopStream is not cleared when its process exits: the closure keeps the key
\* and the streamData of the stopped process until the 5 s are over
timersLeftBy(p) ==
    IF procs[p].killTimers = 0 THEN staleTimers
    ELSE [q \in DOMAIN staleTimers \cup {p} |->
            IF q = p THEN [channel |-> procs[p].key, n |-> procs[p].killTimers]
            ELSE staleTimers[q]]

ProcClose(p, code) ==
    /\ activeStreams' = mapDelete(activeStreams, procs[p].key)
    /\ streamEnded' = emitStreamEnded(streamEnded, p, procs[p].key, code)
    /\ procs' = [q \in DOMAIN procs \ {p} |-> procs[q]]
    /\ staleTimers' = timersLeftBy(p)
    /\ UNCHANGED <<ruleRows, xtream, cleanup, apiReply, matchCall, codecVars, recVars, serverState, serverConfig, now, sweepDue, nextPort, clientConnections,
                   spawnCount, odWait, lastConnect>>

\* the code Node hands to "close" after a spawn that failed (a negative errno)
SpawnFailureCode == 0 - 2

\* spawn() fails: "error" is emitted before the process wrote anything, and "close"
\* follows it in the same turn
ProcError(p) ==
    /\ procs[p].st = "pending" /\ procs[p].timeout /\ procs[p].fallbackArmed
    /\ ~procs[p].errorHasError
    /\ activeStreams' = mapDelete(activeStreams, procs[p].key)
    /\ streamEnded' = emitStreamEnded(streamEnded, p, procs[p].key, SpawnFailureCode)
    /\ procs' = [q \in DOMAIN procs \ {p} |-> procs[q]]
    /\ staleTimers' = timersLeftBy(p)
    /\ UNCHANGED <<ruleRows, xtream, cleanup, apiReply, matchCall, codecVars, recVars, serverState, serverConfig, now, sweepDue, nextPort, clientConnections,
                   spawnCount, odWait, lastConnect>>

\* the 5 s timer of one stopStream call on process p
\* a timer that signalled whatever process the registry holds under the key when it fires
ForceKillTimerExited_KillsRegistered(p) ==
    /\ p \in DOMAIN staleTimers
    /\ staleTimers' =
          IF staleTimers[p].n > 1 THEN [staleTimers EXCEPT ![p].n = @ - 1]
          ELSE [q \in DOMAIN staleTimers \ {p} |-> staleTimers[q]]
    /\ procs' =
          IF has(activeStreams, staleTimers[p].channel)
          THEN [procs EXCEPT ![get(activeStreams, staleTimers[p].channel).proc].sigkilled = TRUE]
          ELSE procs
    /\ UNCHANGED <<ruleRows, xtream, cleanup, apiReply, matchCall, codecVars, recVars, serverState, streamEnded,
                   serverConfig, now, sweepDue, nextPort, activeStreams, clientConnections,
                   spawnCount, odWait, lastConnect>>

\* the timer of a stop fires after the stopped process p has exited: kill("SIGKILL") on
\* the handle of an exited child process sends no signal, whatever the registry holds
\* under the key by now
ForceKillTimerExited(p) ==
    /\ p \in DOMAIN staleTimers
    /\ staleTimers' =
          IF staleTimers[p].n > 1 THEN [staleTimers EXCEPT ![p].n = @ - 1]
          ELSE [q \in DOMAIN staleTimers \ {p} |-> staleTimers[q]]
    /\ UNCHANGED <<ruleRows, xtream, cleanup, apiReply, matchCall, codecVars, recVars, streamVars>>

ForceKillTimer(p) ==
    /\ procs[p].killTimers > 0
    /\ procs' = [procs EXCEPT ![p] =
            [@ EXCEPT !.killTimers = @ - 1,
                      !.sigkilled = @ \/ has(activeStreams, procs[p].key)]]
    /\ UNCHANGED <<ruleRows, staleTimers, xtream, cleanup, apiReply, matchCall, codecVars, recVars, serverState, streamEnded, serverConfig, now, sweepDue, nextPort, activeStreams,
                   clientConnections, spawnCount, odWait,
                   lastConnect>>

-----------------------------------------------------------------------------
(* HTTP routes and presence signals *)

\* the redirect branch of a route for a registered key
redirectActive(k) ==
    /\ canConnect(k)
    /\ clientConnections' = trackClientConnect(clientConnections, k, now)
    /\ lastConnect' = noteConnect(k)
    /\ UNCHANGED <<ruleRows, staleTimers, xtream, cleanup, apiReply, matchCall, codecVars, recVars, serverState, streamEnded, serverConfig, now, sweepDue, nextPort, activeStreams, procs,
                   spawnCount, odWait>>

\* GET /stream/:channel up to its first await
OnDemandRequest(k, maxSpawns) ==
    IF isStreamActive(k) THEN redirectActive(k)
    ELSE /\ requestsUsed < maxSpawns
         /\ IF Len(activeStreams) >= maxStreams
            THEN /\ procs' = stopStream(procs, activeStreams,
                                evictionVictim(activeStreams, clientConnections, now))
                 /\ odWait' = Append(odWait, k)
                 /\ UNCHANGED <<nextPort, spawnCount>>
            ELSE /\ doSpawn(k, "ondemand")
                 /\ UNCHANGED odWait
         /\ UNCHANGED <<ruleRows, staleTimers, xtream, cleanup, apiReply, matchCall, codecVars, recVars, serverState, streamEnded, serverConfig, now, sweepDue, activeStreams, clientConnections,
                        lastConnect>>

\* GET /stream/:channel after the 500 ms wait that follows an eviction
OnDemandResume ==
    /\ odWait # <<>>
    /\ odWait' = Tail(odWait)
    /\ LET k == Head(odWait) IN
       IF isStreamActive(k)
       THEN /\ canConnect(k)
            /\ startStreamExisting(k)
            /\ clientConnections' = trackClientConnect(clientConnections, k, now)
            /\ lastConnect' = noteConnect(k)
       ELSE /\ doSpawn(k, "evict")
            /\ UNCHANGED <<apiReply, activeStreams, streamEnded, clientConnections,
                           lastConnect>>
    /\ UNCHANGED <<ruleRows, staleTimers, xtream, cleanup, matchCall, codecVars, recVars, serverState, serverConfig, now, sweepDue>>

\* POST /api/stream/start
ApiStart(k, maxSpawns) ==
    /\ IF isStreamActive(k)
       THEN startStreamExisting(k)
       ELSE /\ requestsUsed < maxSpawns
            /\ doSpawn(k, "api")
            /\ UNCHANGED <<apiReply, activeStreams, streamEnded>>
    /\ UNCHANGED <<ruleRows, staleTimers, xtream, cleanup, matchCall, codecVars, recVars, serverState, serverConfig, now, sweepDue,
                   clientConnections, odWait, lastConnect>>

\* GET /live/:username/:password/:streamId with the stream key it resolved
LiveRequest(k, maxSpawns) ==
    IF isStreamActive(k) THEN redirectActive(k)
    ELSE /\ requestsUsed < maxSpawns
         /\ doSpawn(k, "live")
         /\ UNCHANGED <<ruleRows, staleTimers, xtream, cleanup, apiReply, matchCall, codecVars, recVars, serverState, streamEnded, serverConfig, now, sweepDue, activeStreams, clientConnections,
                        odWait, lastConnect>>

\* POST /api/stream/stop
ApiStop(k) ==
    /\ has(activeStreams, k) => procs[get(activeStreams, k).proc].terms < MaxStops
    /\ procs' = stopStream(procs, activeStreams, k)
    /\ UNCHANGED <<ruleRows, staleTimers, xtream, cleanup, apiReply, matchCall, codecVars, recVars, serverState, streamEnded, serverConfig, now, sweepDue, nextPort, activeStreams,
                   clientConnections, spawnCount, odWait,
                   lastConnect>>

\* a disconnect signal from the HTTP layer
TrackDisconnect(k) ==
    /\ clientConnections' = trackClientDisconnect(clientConnections, k, now)
    /\ UNCHANGED <<ruleRows, staleTimers, xtream, cleanup, apiReply, matchCall, codecVars, recVars, serverState, streamEnded, serverConfig, now, sweepDue, nextPort, activeStreams, procs,
                   spawnCount, odWait, lastConnect>>

-----------------------------------------------------------------------------
(* The numeric stream id of the Xtream live list.  An id is a JavaScript number  *)
(* below 2^53, so the arithmetic is exact; it is kept here as two limbs,          *)
(* hi * Limb + lo, and travels as its decimal text, a sequence of digits.         *)

Limb == 10000 * 10000

Num(hi, lo) == [hi |-> hi, lo |-> lo]

numGE(a, b) == a.hi > b.hi \/ (a.hi = b.hi /\ a.lo >= b.lo)

numAdd(a, b) == Num(a.hi + b.hi + ((a.lo + b.lo) \div Limb), (a.lo + b.lo) % Limb)

\* a - b for a >= b
numSub(a, b) ==
    IF a.lo >= b.lo THEN Num(a.hi - b.hi, a.lo - b.lo)
    ELSE Num(a.hi - b.hi - 1, a.lo + Limb - b.lo)

QUALITY_OFFSET_720P == Num(100, 0)
QUALITY_OFFSET_480P == Num(200, 0)
QUALITY_OFFSET_720P_ROUTE == Num(100, 0)
QUALITY_OFFSET_480P_ROUTE == Num(200, 0)

RECURSIVE digitsOf(_)
digitsOf(n) == IF n < 10 THEN <<n>> ELSE Append(digitsOf(n \div 10), n % 10)

RECURSIVE zeroPadded(_)
zeroPadded(ds) == IF Len(ds) >= 8 THEN ds ELSE zeroPadded(<<0>> \o ds)

\* String(n) of a non-negative integer
toString(n) == IF n.hi = 0 THEN digitsOf(n.lo) ELSE digitsOf(n.hi) \o zeroPadded(digitsOf(n.lo))

\* parseInt(text, 10) of a text of digits
RECURSIVE parseInt(_)
parseInt(ds) ==
    IF ds = <<>> THEN Num(0, 0)
    ELSE LET a == parseInt(SubSeq(ds, 1, Len(ds) - 1))
             l == a.lo * 10 + ds[Len(ds)]
         IN  Num(a.hi * 10 + (l \div Limb), l % Limb)

\* the offset getXtreamLiveStreams passes to addStreamEntry for an entry of a band
streamIdOffset(band) ==
    CASE band = "720p60" -> QUALITY_OFFSET_720P
      [] band = "480p"   -> QUALITY_OFFSET_480P
      [] OTHER           -> Num(0, 0)

\* stream_id of the entry addStreamEntry pushes
addStreamEntry(stream, offset) ==
    LET twitchUserIdNum == parseInt(stream.user_id)
    IN  IF offset # Num(0, 0) THEN toString(numAdd(twitchUserIdNum, offset))
        ELSE stream.user_id

\* the /live route with the two tests the other way round
decodeStreamId_SmallestFirst(channel) ==
    LET numericId == parseInt(channel)
    IN  IF numGE(numericId, QUALITY_OFFSET_720P_ROUTE)
        THEN [channel |-> toString(numSub(numericId, QUALITY_OFFSET_720P_ROUTE)),
              requestedQuality |-> "720p60"]
        ELSE IF numGE(numericId, QUALITY_OFFSET_480P_ROUTE)
        THEN [channel |-> toString(numSub(numericId, QUALITY_OFFSET_480P_ROUTE)),
              requestedQuality |-> "480p"]
        ELSE [channel |-> channel, requestedQuality |-> "null"]

\* what the /live route makes of a numeric id, before it resolves the channel name
decodeStreamId(channel) ==
    LET numericId == parseInt(channel)
    IN  IF numGE(numericId, QUALITY_OFFSET_480P_ROUTE)
        THEN [channel |-> toString(numSub(numericId, QUALITY_OFFSET_480P_ROUTE)),
              requestedQuality |-> "480p"]
        ELSE IF numGE(numericId, QUALITY_OFFSET_720P_ROUTE)
        THEN [channel |-> toString(numSub(numericId, QUALITY_OFFSET_720P_ROUTE)),
              requestedQuality |-> "720p60"]
        ELSE [channel |-> channel, requestedQuality |-> "null"]

\* the user ids and bands the listing is exercised with
UserIdHi == {0, 1, 99, 100, 150}
UserIdLo == {0, 1, 12345, 99999999}
Bands == {"best", "720p60", "480p"}

CodecStreams ==
    {[user_id |-> toString(Num(h, l)), band |-> b] :
        h \in UserIdHi, l \in UserIdLo, b \in Bands}

\* getXtreamLiveStreams lists the stream in its band
ListEntry ==
    /\ codecPhase = "listed"
    /\ codecStreamId' = addStreamEntry(codecStream, streamIdOffset(codecStream.band))
    /\ codecPhase' = "encoded"
    /\ UNCHANGED <<ruleRows, staleTimers, xtream, cleanup, apiReply, matchCall, streamVars, recVars, codecStream, codecDecoded>>

\* GET /live/:username/:password/:streamId with the listed id
LiveDecode ==
    /\ codecPhase = "encoded"
    /\ codecDecoded' = decodeStreamId(codecStreamId)
    /\ codecPhase' = "decoded"
    /\ UNCHANGED <<ruleRows, staleTimers, xtream, cleanup, apiReply, matchCall, streamVars, recVars, codecStream, codecStreamId>>

CodecIdle ==
    /\ codecPhase = "idle"
    /\ codecStream = [user_id |-> <<0>>, band |-> "best"]
    /\ codecStreamId = <<>>
    /\ codecDecoded = [channel |-> <<>>, requestedQuality |-> "null"]

CodecInit ==
    /\ codecPhase = "listed"
    /\ codecStream \in CodecStreams
    /\ codecStreamId = <<>>
    /\ codecDecoded = [channel |-> <<>>, requestedQuality |-> "null"]

-----------------------------------------------------------------------------
(* The recording rule engine (RecordingManager).  A text that is searched or      *)
(* lower-cased is a sequence of characters.                                       *)

MaxPolls == 1           \* checkRecordingRules calls in flight together
MaxRecordings == 2      \* recording processes spawned in one behaviour
ShutdownSpawns == 1     \* SpecShutdown: viewing start requests
StartSpawns == 3        \* SpecStart: startStream calls that reach spawn()
MixedTicks == 5         \* SpecMixed: reaper intervals
MixedSpawns == 2        \* SpecMixed: viewing start requests
ResolveSpawns == 1      \* SpecResolve: startStream calls that reach spawn()
MaxSweepRecords == 2    \* SpecCleanup: rows of the recordings table when the sweep runs
SweepCutoff == 1        \* SpecCleanup: cutoffTime of the sweep on the model's clock

lowerChar(c) ==
    CASE c = "V" -> "v" [] c = "A" -> "a" [] c = "L" -> "l" [] c = "O" -> "o"
      [] c = "R" -> "r" [] c = "N" -> "n" [] c = "T" -> "t" [] c = "C" -> "c"
      [] OTHER -> c

lowerText(t) == [i \in DOMAIN t |-> lowerChar(t[i])]

\* text.includes(sub)
includes(text, sub) ==
    \E i \in 0..(Len(text) - Len(sub)) : SubSeq(text, i + 1, i + Len(sub)) = sub

NoGame == <<>>

\* recording_rules as getRecordingRules returns it, ordered by channel_name
RuleTable ==
    << [id |-> 2, channel_login |-> "bar", game_name |-> <<"*">>],
       [id |-> 1, channel_login |-> "foo", game_name |-> <<"v","a","l","o","r","a","n","t">>],
       [id |-> 3, channel_login |-> "foo", game_name |-> NoGame] >>

RuleIds == {RuleTable[i].id : i \in DOMAIN RuleTable}

Channels == {toLowerCase(RuleTable[i].channel_login) : i \in DOMAIN RuleTable}

\* what getStreamsByLogins can say of one channel
StreamGames == {<<"V","A","L","O","R","A","N","T">>, <<"C","h","e","s","s">>, NoGame}

offline == [live |-> FALSE, game_name |-> NoGame]

StreamStates == {offline} \cup {[live |-> TRUE, game_name |-> g] : g \in StreamGames}

\* the comparison of shouldRecord without the lower-casing
shouldRecord_CaseSensitive(rule, stream) ==
    IF rule.game_name = NoGame \/ rule.game_name = <<"*">> THEN TRUE
    ELSE \/ includes(stream.game_name, rule.game_name)
         \/ includes(rule.game_name, stream.game_name)

\* a shouldRecord that only looks for the rule's game inside the stream's game
shouldRecord_StreamContainsRule(rule, stream) ==
    IF rule.game_name = NoGame \/ rule.game_name = <<"*">> THEN TRUE
    ELSE includes(lowerText(stream.game_name), lowerText(rule.game_name))

shouldRecord(rule, stream) ==
    IF rule.game_name = NoGame \/ rule.game_name = <<"*">> THEN TRUE
    ELSE LET streamGame == lowerText(stream.game_name)
             ruleGame == lowerText(rule.game_name)
         IN  includes(streamGame, ruleGame) \/ includes(ruleGame, streamGame)

\* the manager's maps and the recordings table, as one value the methods transform
recState == [procs |-> recProcs, active |-> activeRecordings, spawns |-> recSpawns,
             table |-> recordings]

extend(f, k, v) == [x \in DOMAIN f \cup {k} |-> IF x = k THEN v ELSE f[x]]

without(f, k) == [x \in DOMAIN f \ {k} |-> f[x]]

startRecording(st, rule, stream) ==
    LET channelLogin == toLowerCase(rule.channel_login)
        id == st.spawns + 1
    IN  IF channelLogin \in DOMAIN st.active THEN st
        ELSE [procs  |-> extend(st.procs, id, [channel |-> channelLogin, ruleId |-> rule.id,
                                                killed |-> FALSE, terms |-> 0]),
              active |-> extend(st.active, channelLogin,
                                [ruleId |-> rule.id, process |-> id]),
              spawns |-> id,
              table  |-> extend(st.table, id, "recording")]

\* a stopRecording that forgets the session at once instead of on 'close'
stopRecording_ForgetsAtOnce(st, channelLogin) ==
    LET key == toLowerCase(channelLogin)
    IN  IF key \notin DOMAIN st.active THEN st
        ELSE [st EXCEPT !.procs[st.active[key].process] = [@ EXCEPT !.killed = TRUE,
                                                                    !.terms = @ + 1],
                        !.active = without(st.active, key)]

stopRecording(st, channelLogin) ==
    LET key == toLowerCase(channelLogin)
    IN  IF key \notin DOMAIN st.active THEN st
        ELSE LET p == st.active[key].process
             IN  IF st.procs[p].killed THEN st
                 ELSE [st EXCEPT !.procs[p] = [@ EXCEPT !.killed = TRUE, !.terms = @ + 1]]

\* the stop branch without the test of the starting rule
startedByThisRule_Unchecked(recording, rule) == TRUE

\* "Only stop if this recording was started by this rule"
startedByThisRule(recording, rule) == recording.ruleId = rule.id

\* a loop body of checkRecordingRules that has no stop branch
evaluateRule_NeverStops(st, rule, enabled, liveStreams) ==
    LET key == toLowerCase(rule.channel_login)
        stream == liveStreams[key]
    IN  IF enabled /\ stream.live /\ shouldRecord(rule, stream)
             /\ key \notin DOMAIN st.active
        THEN startRecording(st, rule, stream)
        ELSE st

\* one pass of the loop body of checkRecordingRules
\* a loop that evaluates disabled rules as well
evaluateRule_IgnoresEnabled(st, rule, enabled, liveStreams) ==
    LET key == toLowerCase(rule.channel_login)
        stream == liveStreams[key]
        isRecording == key \in DOMAIN st.active
    IN  IF stream.live /\ shouldRecord(rule, stream)
        THEN IF ~isRecording THEN startRecording(st, rule, stream) ELSE st
        ELSE IF isRecording /\ startedByThisRule(st.active[key], rule)
        THEN stopRecording(st, rule.channel_login)
        ELSE st

evaluateRule(st, rule, enabled, liveStreams) ==
    LET key == toLowerCase(rule.channel_login)
        stream == liveStreams[key]
        isRecording == key \in DOMAIN st.active
    IN  IF ~enabled THEN st
        ELSE IF stream.live /\ shouldRecord(rule, stream)
        THEN IF ~isRecording THEN startRecording(st, rule, stream) ELSE st
        ELSE IF isRecording /\ startedByThisRule(st.active[key], rule)
        THEN stopRecording(st, rule.channel_login)
        ELSE st

inLoop == \E i \in DOMAIN polls : polls[i].phase = "loop"

removeAt(seq, i) == SubSeq(seq, 1, i - 1) \o SubSeq(seq, i + 1, Len(seq))

\* PUT /api/recording-rules/:id with a changed enabled flag; 404 for a row that is gone
RulePut(id) ==
    /\ ~inLoop
    /\ id \in ruleRows
    /\ ruleEnabled' = [ruleEnabled EXCEPT ![id] = ~@]
    /\ UNCHANGED <<ruleRows, staleTimers, xtream, cleanup, apiReply, matchCall, streamVars, codecVars, polls, activeRecordings, recProcs, recSpawns,
                   recordings>>

\* DELETE /api/recording-rules/:id: the row leaves the table (its flag is of no use any
\* more and is put to FALSE); ids are never reused
RuleDelete(id) ==
    /\ ~inLoop
    /\ id \in ruleRows
    /\ ruleRows' = ruleRows \ {id}
    /\ ruleEnabled' = [ruleEnabled EXCEPT ![id] = FALSE]
    /\ UNCHANGED <<staleTimers, xtream, cleanup, apiReply, matchCall, streamVars, codecVars, polls, activeRecordings, recProcs, recSpawns,
                   recordings>>

\* db.getRecordingRules() as the loop of a poll uses it: by rule id, TRUE for a row that
\* is enabled; a disabled row is skipped by the loop and a deleted one is not in the list
getRecordingRules == [id \in RuleIds |-> id \in ruleRows /\ ruleEnabled[id]]

\* a poll begins: with no rule in the table it returns at once, otherwise it keeps the
\* rules it read and waits for the live status
checkRecordingRules ==
    /\ ~inLoop
    /\ Len(polls) < MaxPolls
    /\ polls' = IF ruleRows = {} THEN polls
                ELSE Append(polls, [phase |-> "fetch", rules |-> getRecordingRules,
                                    liveStreams |-> [c \in Channels |-> offline],
                                    idx |-> 1, startActive |-> {},
                                    fetchError |-> FALSE])
    /\ UNCHANGED <<ruleRows, staleTimers, xtream, cleanup, apiReply, matchCall, streamVars, codecVars, ruleEnabled, activeRecordings, recProcs,
                   recSpawns, recordings>>

\* getLiveStatusForChannels returns what the API reported for the channels of the rules
LiveStatusFetched(i, liveStreams) ==
    /\ ~inLoop
    /\ polls[i].phase = "fetch"
    /\ recSpawns + Cardinality({c \in Channels : /\ liveStreams[c].live
                                                  /\ c \notin DOMAIN activeRecordings})
           <= MaxRecordings
    /\ polls' = [polls EXCEPT ![i] = [@ EXCEPT !.phase = "loop", !.liveStreams = liveStreams,
                                               !.startActive = DOMAIN activeRecordings]]
    /\ UNCHANGED <<ruleRows, staleTimers, xtream, cleanup, apiReply, matchCall, streamVars, codecVars, ruleEnabled, activeRecordings, recProcs,
                   recSpawns, recordings>>

\* a fetch that treated every channel as live after an error
LiveStatusFailed_AllLive(i) ==
    /\ ~inLoop
    /\ polls[i].phase = "fetch"
    /\ recSpawns + Cardinality(Channels \ DOMAIN activeRecordings) <= MaxRecordings
    /\ polls' = [polls EXCEPT ![i] =
                    [@ EXCEPT !.phase = "loop", !.fetchError = TRUE,
                              !.liveStreams = [c \in Channels |->
                                                  [live |-> TRUE, game_name |-> NoGame]],
                              !.startActive = DOMAIN activeRecordings]]
    /\ UNCHANGED <<ruleRows, staleTimers, xtream, cleanup, apiReply, matchCall, streamVars, codecVars, ruleEnabled, activeRecordings, recProcs,
                   recSpawns, recordings>>

\* getStreamsByLogins throws: getLiveStatusForChannels logs the error and returns the
\* Map it had created, still empty, so the loop finds no stream for any channel
LiveStatusFailed(i) ==
    /\ ~inLoop
    /\ polls[i].phase = "fetch"
    /\ polls' = [polls EXCEPT ![i] =
                    [@ EXCEPT !.phase = "loop", !.fetchError = TRUE,
                              !.liveStreams = [c \in Channels |-> offline],
                              !.startActive = DOMAIN activeRecordings]]
    /\ UNCHANGED <<ruleRows, staleTimers, xtream, cleanup, apiReply, matchCall, streamVars, codecVars, ruleEnabled, activeRecordings, recProcs,
                   recSpawns, recordings>>

\* the loop of checkRecordingRules, one rule at a time; nothing else runs meanwhile
PollRule(i) ==
    /\ polls[i].phase = "loop"
    /\ IF polls[i].idx > Len(RuleTable)
       THEN /\ polls' = removeAt(polls, i)
            /\ UNCHANGED <<activeRecordings, recProcs, recSpawns, recordings>>
       ELSE LET rule == RuleTable[polls[i].idx]
                st == evaluateRule(recState, rule, polls[i].rules[rule.id],
                                   polls[i].liveStreams)
            IN  /\ recProcs' = st.procs
                /\ activeRecordings' = st.active
                /\ recSpawns' = st.spawns
                /\ recordings' = st.table
                /\ polls' = [polls EXCEPT ![i].idx = @ + 1]
    /\ UNCHANGED <<ruleRows, staleTimers, xtream, cleanup, apiReply, matchCall, streamVars, codecVars, ruleEnabled>>

\* a close handler that records every exit as completed
RecClose_AlwaysCompleted(p, code) ==
    /\ ~inLoop
    /\ activeRecordings' = without(activeRecordings, recProcs[p].channel)
    /\ recordings' = [recordings EXCEPT ![p] = "completed"]
    /\ recProcs' = without(recProcs, p)
    /\ UNCHANGED <<ruleRows, staleTimers, xtream, cleanup, apiReply, matchCall, streamVars, codecVars, ruleEnabled, polls, recSpawns>>

\* 'close' of a recording process
RecClose(p, code) ==
    /\ ~inLoop
    /\ activeRecordings' = without(activeRecordings, recProcs[p].channel)
    /\ recordings' = [recordings EXCEPT ![p] = IF code = 0 THEN "completed" ELSE "failed"]
    /\ recProcs' = without(recProcs, p)
    /\ UNCHANGED <<ruleRows, staleTimers, xtream, cleanup, apiReply, matchCall, streamVars, codecVars, ruleEnabled, polls, recSpawns>>

\* 'error' of a recording process that could not be spawned, and the 'close' after it
RecError(p) ==
    /\ ~inLoop
    /\ recProcs[p].terms = 0
    /\ activeRecordings' = without(activeRecordings, recProcs[p].channel)
    /\ recordings' = [recordings EXCEPT ![p] = "failed"]
    /\ recProcs' = without(recProcs, p)
    /\ UNCHANGED <<ruleRows, staleTimers, xtream, cleanup, apiReply, matchCall, streamVars, codecVars, ruleEnabled, polls, recSpawns>>

\* game filters and stream games of the calls of shouldRecord that SpecMatch makes
MatchFilters ==
    { NoGame, <<"*">>,
      <<"v","a","l","o","r","a","n","t">>, <<"V","A","L","O","R","A","N","T">>,
      <<"v","a","l","o">>, <<"c","h","e","s","s">>, <<"a">>,
      <<"v","a","l","o","r","a","n","t"," ","2">> }

MatchGames ==
    { NoGame,
      <<"V","A","L","O","R","A","N","T">>, <<"V","a","l","o","r","a","n","t">>,
      <<"V","a","l","o">>, <<"C","h","e","s","s">>, <<"c","h","e","s","s">>,
      <<"L","o","s","t"," ","A","r","k">> }

\* no call of shouldRecord is being observed
MatchIdle ==
    matchCall = [phase |-> "idle", rule |-> [game_name |-> NoGame],
                 stream |-> [live |-> TRUE, game_name |-> NoGame], result |-> FALSE]

\* shouldRecord is called with a rule and a live stream
MatchInit ==
    \E filter \in MatchFilters : \E game \in MatchGames :
        matchCall = [phase |-> "called", rule |-> [game_name |-> filter],
                     stream |-> [live |-> TRUE, game_name |-> game], result |-> FALSE]

\* the call returns
ShouldRecordReturns ==
    /\ matchCall.phase = "called"
    /\ matchCall' = [matchCall EXCEPT !.phase = "returned",
                                      !.result = shouldRecord(matchCall.rule, matchCall.stream)]
    /\ UNCHANGED <<ruleRows, staleTimers, xtream, cleanup, apiReply, streamVars, codecVars, recVars>>

RECURSIVE stopAllRecordings(_, _)
\* stopAllRecordings over the keys still to visit
stopAllRecordings(st, keys) ==
    IF keys = {} THEN st
    ELSE LET channelLogin == CHOOSE k \in keys : TRUE
         IN  stopAllRecordings(stopRecording(st, channelLogin), keys \ {channelLogin})

\* RecordingManager.shutdown: the interval is cleared and every recording is stopped
shutdown(st) == stopAllRecordings(st, DOMAIN st.active)

RecIdle ==
    /\ ruleEnabled = [id \in RuleIds |-> TRUE]
    /\ ruleRows = RuleIds
    /\ polls = <<>>
    /\ activeRecordings = <<>>
    /\ recProcs = <<>>
    /\ recSpawns = 0
    /\ recordings = <<>>

-----------------------------------------------------------------------------
(* The retention sweep of the RecordingManager.  The sweep is synchronous: it     *)
(* reads the recordings table and the recordings directory and deletes from both. *)

\* files the recordings directory may hold
SweepPaths == {"f1", "f2", "f3"}

\* started_at of a row and mtimeMs of a file: before or after the cutoff
SweepTimes == {0, 2}

RecordingStatuses == {"recording", "completed", "failed"}

\* a row of the recordings table
SweepRows ==
    [id : 1..MaxSweepRecords, filepath : SweepPaths, started_at : SweepTimes,
     status : RecordingStatuses]

\* tables in rowid order; a filepath carries the start time of its recording to the
\* millisecond, so no two rows share one
SweepTables ==
    { t \in UNION {[1..n -> SweepRows] : n \in 0..MaxSweepRecords} :
        /\ \A i \in 1..Len(t) : t[i].id = i
        /\ \A i, j \in 1..Len(t) : i # j => t[i].filepath # t[j].filepath }

\* a file of the directory; unlinkSync throws on a file that is locked
SweepFiles == [mtimeMs : SweepTimes, locked : BOOLEAN]

SweepDirs == UNION {[d -> SweepFiles] : d \in SUBSET SweepPaths}

\* the orders in which readdirSync may list the directory
SweepOrders ==
    { o \in [1..Cardinality(SweepPaths) -> SweepPaths] :
        \A i, j \in 1..Cardinality(SweepPaths) : i # j => o[i] # o[j] }

\* no sweep is being observed
CleanupIdle == cleanup = [phase |-> "idle", table |-> <<>>, dir |-> <<>>, log |-> <<>>]

\* the cleanup interval fires on some table and some directory
CleanupInit ==
    \E t \in SweepTables : \E d \in SweepDirs :
        cleanup = [phase |-> "due", table |-> t, dir |-> d, log |-> <<>>]

\* a query that returns the rows of every status
getRecordingsOlderThan_AnyStatus(table, timestamp) ==
    SelectSeq(table, LAMBDA r : r.started_at < timestamp)

\* SELECT * FROM recordings WHERE started_at < ? AND status != 'recording'
getRecordingsOlderThan(table, timestamp) ==
    SelectSeq(table, LAMBDA r : r.started_at < timestamp /\ r.status # "recording")

\* SELECT * FROM recordings WHERE filepath = ?  (is there such a row)
getRecordingByFilepath(table, filepath) ==
    \E i \in 1..Len(table) : table[i].filepath = filepath

\* DELETE FROM recordings WHERE id = ?
deleteRecording(table, id) == SelectSeq(table, LAMBDA r : r.id # id)

\* fs.unlinkSync on a file that can be deleted
unlinkSync(dir, filepath) == [f \in DOMAIN dir \ {filepath} |-> dir[f]]

RECURSIVE deleteOldRecordings(_, _)
\* the first loop of cleanupOldRecordings over the rows still to visit; st.thrown is
\* set by an unlinkSync that throws, which leaves the loop
deleteOldRecordings(st, oldRecordings) ==
    IF oldRecordings = <<>> THEN st
    ELSE LET recording == Head(oldRecordings) IN
         IF recording.filepath \in DOMAIN st.dir
         THEN IF st.dir[recording.filepath].locked
              THEN [st EXCEPT !.thrown = TRUE]
              ELSE deleteOldRecordings(
                       [st EXCEPT !.dir = unlinkSync(@, recording.filepath),
                                  !.log = Append(@, <<"Deleted", recording.filepath>>),
                                  !.table = deleteRecording(@, recording.id)],
                       Tail(oldRecordings))
         ELSE deleteOldRecordings([st EXCEPT !.table = deleteRecording(@, recording.id)],
                                  Tail(oldRecordings))

RECURSIVE deleteOrphanedFiles(_, _, _)
\* the second loop of cleanupOldRecordings over the listed files still to visit
deleteOrphanedFiles(st, files, cutoffTime) ==
    IF files = <<>> THEN st
    ELSE LET filepath == Head(files) IN
         IF st.dir[filepath].mtimeMs < cutoffTime /\ ~getRecordingByFilepath(st.table, filepath)
         THEN IF st.dir[filepath].locked
              THEN [st EXCEPT !.thrown = TRUE]
              ELSE deleteOrphanedFiles(
                       [st EXCEPT !.dir = unlinkSync(@, filepath),
                                  !.log = Append(@, <<"Deleted orphaned file", filepath>>)],
                       Tail(files), cutoffTime)
         ELSE deleteOrphanedFiles(st, Tail(files), cutoffTime)

\* the catch block: console.error("[Recording] Cleanup error:", ...)
cleanupError(st) == [st EXCEPT !.log = Append(@, <<"Cleanup error">>)]

\* cleanupOldRecordings with the order in which readdirSync lists the directory
cleanupOldRecordings(st, order, cutoffTime) ==
    LET st1 == deleteOldRecordings(st, getRecordingsOlderThan(st.table, cutoffTime)) IN
    IF st1.thrown THEN cleanupError(st1)
    ELSE LET files == SelectSeq(order, LAMBDA f : f \in DOMAIN st1.dir)
             st2 == deleteOrphanedFiles(st1, files, cutoffTime)
         IN  IF st2.thrown THEN cleanupError(st2) ELSE st2

\* the interval callback runs the sweep
CleanupOldRecordings ==
    /\ cleanup.phase = "due"
    /\ \E order \in SweepOrders :
          LET st == cleanupOldRecordings(
                        [table |-> cleanup.table, dir |-> cleanup.dir, log |-> <<>>,
                         thrown |-> FALSE], order, SweepCutoff)
          IN  cleanup' = [phase |-> "done", table |-> st.table, dir |-> st.dir,
                          log |-> st.log]
    /\ UNCHANGED <<ruleRows, staleTimers, xtream, apiReply, matchCall, streamVars, codecVars, recVars>>

-----------------------------------------------------------------------------
(* The reverse lookup of the /live route: userIdToChannelMap takes the base id of  *)
(* a numeric stream id to the channel login.                                       *)

\* base ids a client may ask for, and the login the live-status provider has for each
ResolveIds == {"101", "102"}

loginOf(id) == IF id = "101" THEN "a" ELSE "A"

\* userIdToChannelMap: the base ids it knows
ResolveMaps == {[d \in known |-> loginOf(d)] : known \in SUBSET ResolveIds}

\* no /live request with a numeric id is being observed
XtreamIdle == xtream = [phase |-> "idle", channel |-> "", userIdToChannelMap |-> <<>>,
                        refreshes |-> 0]

\* a request for the base id comes in
XtreamInit ==
    \E id \in ResolveIds : \E map \in ResolveMaps :
        xtream = [phase |-> "request", channel |-> id, userIdToChannelMap |-> map,
                  refreshes |-> 0]

\* for (const stream of liveStreams) userIdToChannelMap.set(stream.user_id, stream.user_login)
refreshMap(map, liveStreams) ==
    [d \in DOMAIN map \cup liveStreams |-> IF d \in liveStreams THEN loginOf(d) ELSE map[d]]

\* the /live route from its isStreamActive test on, with the stream key it arrived at
startLive(streamKey) ==
    IF isStreamActive(streamKey)
    THEN /\ canConnect(streamKey)
         /\ clientConnections' = trackClientConnect(clientConnections, streamKey, now)
         /\ lastConnect' = noteConnect(streamKey)
         /\ UNCHANGED <<nextPort, activeStreams, procs, spawnCount>>
    ELSE /\ requestsUsed < ResolveSpawns
         /\ doSpawn(streamKey, "live")
         /\ UNCHANGED <<activeStreams, clientConnections, lastConnect>>

\* GET /live/:username/:password/:streamId with a numeric id, up to its first await: a
\* hit goes on to the start at once, a miss sends the live-status fetch
LiveLookup ==
    /\ xtream.phase = "request"
    /\ IF xtream.channel \in DOMAIN xtream.userIdToChannelMap
       THEN /\ xtream' = [xtream EXCEPT !.phase = "started",
                                        !.channel = xtream.userIdToChannelMap[xtream.channel]]
            /\ startLive(xtream.userIdToChannelMap[xtream.channel])
       ELSE /\ xtream' = [xtream EXCEPT !.phase = "refreshing", !.refreshes = @ + 1]
            /\ UNCHANGED <<nextPort, activeStreams, procs, spawnCount, clientConnections,
                           lastConnect>>
    /\ UNCHANGED <<ruleRows, staleTimers, cleanup, apiReply, matchCall, codecVars, recVars, serverState, streamEnded, serverConfig, now, sweepDue, odWait>>

\* getLiveStreams returns the streams that are live; the handler goes on to the start
LiveRefreshed(liveStreams) ==
    /\ xtream.phase = "refreshing"
    /\ LET map == refreshMap(xtream.userIdToChannelMap, liveStreams)
           channel == IF xtream.channel \in DOMAIN map THEN map[xtream.channel]
                      ELSE xtream.channel
       IN  /\ xtream' = [xtream EXCEPT !.phase = "started", !.channel = channel,
                                       !.userIdToChannelMap = map]
           /\ startLive(channel)
    /\ UNCHANGED <<ruleRows, staleTimers, cleanup, apiReply, matchCall, codecVars, recVars, serverState, streamEnded, serverConfig, now, sweepDue, odWait>>

\* getLiveStreams throws; the catch logs and the handler goes on to the start
LiveRefreshFailed ==
    /\ xtream.phase = "refreshing"
    /\ xtream' = [xtream EXCEPT !.phase = "started"]
    /\ startLive(xtream.channel)
    /\ UNCHANGED <<ruleRows, staleTimers, cleanup, apiReply, matchCall, codecVars, recVars, serverState, streamEnded, serverConfig, now, sweepDue, odWait>>

-----------------------------------------------------------------------------
\* new StreamlinkManager(config.streamlink, config.server) with ports streamPortStart..portEnd
ManagerInit(portEnd) ==
    /\ now = 0
    /\ sweepDue = FALSE
    /\ serverConfig = [streamPortStart |-> streamPortStart, streamPortEnd |-> portEnd]
    /\ nextPort = streamPortStart
    /\ activeStreams = <<>>
    /\ clientConnections = <<>>
    /\ procs = <<>>
    /\ spawnCount = 0
    /\ odWait = <<>>
    /\ lastConnect = <<>>
    /\ streamEnded = <<>>
    /\ serverState = "running"
    /\ apiReply = NoReply
    /\ staleTimers = <<>>

StreamInit == ManagerInit(streamPortEnd)

\* what the child processes and their timers do
ProcessEvents ==
    \/ \E p \in DOMAIN procs : StdoutReady(p)
    \/ \E p \in DOMAIN procs : StderrFailure(p)
    \/ \E p \in DOMAIN procs : StderrError(p)
    \/ \E p \in DOMAIN procs : StartupTimeout(p)
    \/ \E p \in DOMAIN procs : FallbackTimer(p)
    \/ \E p \in DOMAIN procs : \E code \in ExitCodes : ProcClose(p, code)
    \/ \E p \in DOMAIN procs : ForceKillTimer(p)
    \/ \E p \in DOMAIN staleTimers : ForceKillTimerExited(p)

StreamNext(maxTicks, maxSpawns) ==
    \/ AdvanceTime(maxTicks)
    \/ _checkAutoStop
    \/ \E k \in Keys : OnDemandRequest(k, maxSpawns)
    \/ \E k \in Keys : ApiStart(k, maxSpawns)
    \/ \E k \in Keys : LiveRequest(k, maxSpawns)
    \/ \E k \in Keys : ApiStop(k)
    \/ \E k \in Keys : TrackDisconnect(k)
    \/ ProcessEvents

Init == StreamInit /\ CodecIdle /\ RecIdle /\ CleanupIdle /\ XtreamIdle /\ MatchIdle

Next == StreamNext(MaxTicks, MaxSpawns) \/ OnDemandResume

Spec == Init /\ [][Next]_vars

NextReaper == StreamNext(ReaperTicks, ReaperSpawns)

SpecReaper == Init /\ [][NextReaper]_vars

\* the on-demand route alone over a range two ports wide
InitPool == ManagerInit(PoolPortEnd) /\ CodecIdle /\ RecIdle /\ CleanupIdle /\ XtreamIdle /\ MatchIdle

NextPool ==
    \/ AdvanceTime(PoolTicks)
    \/ _checkAutoStop
    \/ \E k \in PoolKeys : OnDemandRequest(k, PoolSpawns)
    \/ OnDemandResume
    \/ \E k \in PoolKeys : TrackDisconnect(k)
    \/ \E p \in DOMAIN procs : StdoutReady(p)
    \/ \E p \in DOMAIN procs : FallbackTimer(p)
    \/ \E p \in DOMAIN procs : \E code \in ExitCodes : ProcClose(p, code)
    \/ \E p \in DOMAIN procs : ForceKillTimer(p)
    \/ \E p \in DOMAIN staleTimers : ForceKillTimerExited(p)

SpecPool == InitPool /\ [][NextPool]_vars

\* startStream alone, called by POST /api/stream/start, over a range two ports wide
InitStart == ManagerInit(PoolPortEnd) /\ CodecIdle /\ RecIdle /\ CleanupIdle /\ XtreamIdle /\ MatchIdle

NextStart ==
    \/ \E k \in Keys : ApiStart(k, StartSpawns)
    \/ \E p \in DOMAIN procs : StdoutReady(p)
    \/ \E p \in DOMAIN procs : StderrFailure(p)
    \/ \E p \in DOMAIN procs : StderrError(p)
    \/ \E p \in DOMAIN procs : StartupTimeout(p)
    \/ \E p \in DOMAIN procs : FallbackTimer(p)
    \/ \E p \in DOMAIN procs : ProcError(p)
    \/ \E p \in DOMAIN procs : \E code \in ExitCodes : ProcClose(p, code)

SpecStart == InitStart /\ [][NextStart]_vars

\* an armed startup timer fires: the event loop runs every timer that is not cleared
StartFairness ==
    \A p \in 1..StartSpawns : WF_vars(p \in DOMAIN procs /\ StartupTimeout(p))

SpecStartLive == InitStart /\ [][NextStart]_vars /\ StartFairness

InitCodec == StreamInit /\ CodecInit /\ RecIdle /\ CleanupIdle /\ XtreamIdle /\ MatchIdle

NextCodec == ListEntry \/ LiveDecode

SpecCodec == InitCodec /\ [][NextCodec]_vars

\* streamlink.stopAll()
stopAll(ps, reg) == stopEach(ps, reg, channelsOf(reg))

\* process.on("SIGTERM"): recordingManager.shutdown(), streamlink.stopAll(), server.close
OnSIGTERM ==
    /\ serverState = "running"
    /\ ~inLoop
    /\ recProcs' = shutdown(recState).procs
    /\ procs' = stopAll(procs, activeStreams)
    /\ serverState' = "SIGTERM"
    /\ UNCHANGED <<ruleRows, staleTimers, xtream, cleanup, apiReply, matchCall, codecVars, ruleEnabled, polls, activeRecordings, recSpawns, recordings,
                   now, sweepDue, nextPort, activeStreams, clientConnections, spawnCount,
                   odWait, lastConnect, serverConfig, streamEnded>>

\* process.on("SIGINT"): streamlink.stopAll(), server.close
OnSIGINT ==
    /\ serverState = "running"
    /\ ~inLoop
    /\ procs' = stopAll(procs, activeStreams)
    /\ serverState' = "SIGINT"
    /\ UNCHANGED <<ruleRows, staleTimers, xtream, cleanup, apiReply, matchCall, codecVars, recVars, now, sweepDue, nextPort, activeStreams,
                   clientConnections, spawnCount, odWait, lastConnect, serverConfig,
                   streamEnded>>

\* the callback of server.close: process.exit(0)
ServerClosed ==
    /\ serverState \in {"SIGTERM", "SIGINT"}
    /\ ~inLoop
    /\ serverState' = "exited"
    /\ UNCHANGED <<ruleRows, staleTimers, xtream, cleanup, apiReply, matchCall, codecVars, recVars, now, sweepDue, nextPort, activeStreams,
                   clientConnections, procs, spawnCount, odWait, lastConnect, serverConfig,
                   streamEnded>>

\* viewing sessions, recordings and the shutdown handlers; nothing runs once the server
\* process has exited, and a SIGTERM has cleared the interval of the rule poll
NextShutdown ==
    \/ serverState # "exited" /\ \E k \in Keys : ApiStart(k, ShutdownSpawns)
    \/ serverState # "exited" /\ \E p \in DOMAIN procs : StdoutReady(p)
    \/ serverState # "exited" /\ \E p \in DOMAIN procs : \E code \in ExitCodes :
                                      ProcClose(p, code)
    \/ serverState # "exited" /\ \E p \in DOMAIN procs : ForceKillTimer(p)
    \/ serverState # "exited" /\ \E p \in DOMAIN staleTimers : ForceKillTimerExited(p)
    \/ serverState \in {"running", "SIGINT"} /\ checkRecordingRules
    \/ serverState # "exited" /\ \E i \in DOMAIN polls :
           \E live \in [Channels -> StreamStates] : LiveStatusFetched(i, live)
    \/ serverState # "exited" /\ \E i \in DOMAIN polls : PollRule(i)
    \/ serverState # "exited" /\ \E p \in DOMAIN recProcs : \E code \in ExitCodes :
                                      RecClose(p, code)
    \/ OnSIGTERM
    \/ OnSIGINT
    \/ ServerClosed

SpecShutdown == Init /\ [][NextShutdown]_vars

\* the server is started again on the database the previous run left: the managers are
\* constructed anew (empty maps, no polls, no timers), recording_rules and recordings
\* are what the database holds, and the child processes of the previous run are not
\* children of this one; the numbering of processes and records goes on
ServerRestart ==
    /\ serverState = "exited"
    /\ serverState' = "running"
    /\ activeRecordings' = <<>>
    /\ polls' = <<>>
    /\ recProcs' = <<>>
    /\ activeStreams' = <<>>
    /\ clientConnections' = <<>>
    /\ procs' = <<>>
    /\ odWait' = <<>>
    /\ lastConnect' = <<>>
    /\ staleTimers' = <<>>
    /\ nextPort' = serverConfig.streamPortStart
    /\ sweepDue' = FALSE
    /\ apiReply' = NoReply
    /\ UNCHANGED <<ruleRows, ruleEnabled, recordings, recSpawns, spawnCount, streamEnded, now,
                   serverConfig, xtream, cleanup, matchCall, codecVars>>

\* the rule poll and the recordings over shutdowns and restarts of the server
NextRestart ==
    \/ serverState \in {"running", "SIGINT"} /\ checkRecordingRules
    \/ serverState # "exited" /\ \E i \in DOMAIN polls :
           \E live \in [Channels -> StreamStates] : LiveStatusFetched(i, live)
    \/ serverState # "exited" /\ \E i \in DOMAIN polls : PollRule(i)
    \/ serverState # "exited" /\ \E p \in DOMAIN recProcs : \E code \in ExitCodes :
                                      RecClose(p, code)
    \/ serverState # "exited" /\ \E p \in DOMAIN recProcs : RecError(p)
    \/ OnSIGTERM
    \/ OnSIGINT
    \/ ServerClosed
    \/ ServerRestart

SpecRestart == Init /\ [][NextRestart]_vars

NextRec ==
    \/ \E id \in RuleIds : RulePut(id)
    \/ \E id \in RuleIds : RuleDelete(id)
    \/ checkRecordingRules
    \/ \E i \in DOMAIN polls : \E live \in [Channels -> StreamStates] :
           LiveStatusFetched(i, live)
    \/ \E i \in DOMAIN polls : LiveStatusFailed(i)
    \/ \E i \in DOMAIN polls : PollRule(i)
    \/ \E p \in DOMAIN recProcs : \E code \in {0, 1} : RecClose(p, code)
    \/ \E p \in DOMAIN recProcs : RecError(p)

SpecRec == Init /\ [][NextRec]_vars

\* single calls of shouldRecord
\* SpecMixed: what the live-status fetch says: nothing is live, or "foo" plays VALORANT
MixedLive ==
    { [c \in Channels |-> offline],
      [c \in Channels |->
          IF c = "foo" THEN [live |-> TRUE, game_name |-> <<"V","A","L","O","R","A","N","T">>]
                       ELSE offline] }

\* the on-demand route with its admission controller, the idle reaper and the rule poll
\* with its recordings, side by side
NextMixed ==
    \/ AdvanceTime(MixedTicks)
    \/ _checkAutoStop
    \/ \E k \in Keys : OnDemandRequest(k, MixedSpawns)
    \/ OnDemandResume
    \/ \E p \in DOMAIN procs : StdoutReady(p)
    \/ \E p \in DOMAIN procs : \E code \in ExitCodes : ProcClose(p, code)
    \/ \E p \in DOMAIN staleTimers : ForceKillTimerExited(p)
    \/ checkRecordingRules
    \/ \E i \in DOMAIN polls : \E live \in MixedLive : LiveStatusFetched(i, live)
    \/ \E i \in DOMAIN polls : PollRule(i)
    \/ \E p \in DOMAIN recProcs : \E code \in ExitCodes : RecClose(p, code)

SpecMixed == Init /\ [][NextMixed]_vars

\* one /live request with a numeric id, and the process it starts
InitResolve == StreamInit /\ CodecIdle /\ RecIdle /\ CleanupIdle /\ XtreamInit /\ MatchIdle

NextResolve ==
    \/ LiveLookup
    \/ \E liveStreams \in SUBSET ResolveIds : LiveRefreshed(liveStreams)
    \/ LiveRefreshFailed
    \/ \E p \in DOMAIN procs : StdoutReady(p)
    \/ \E p \in DOMAIN procs : StderrFailure(p)
    \/ \E p \in DOMAIN procs : FallbackTimer(p)
    \/ \E p \in DOMAIN procs : \E code \in ExitCodes : ProcClose(p, code)

SpecResolve == InitResolve /\ [][NextResolve]_vars

\* one retention sweep on a table and a directory drawn from the bounded sets
InitCleanup == StreamInit /\ CodecIdle /\ RecIdle /\ CleanupInit /\ XtreamIdle /\ MatchIdle

NextCleanup == CleanupOldRecordings

SpecCleanup == InitCleanup /\ [][NextCleanup]_vars

InitMatch == StreamInit /\ CodecIdle /\ RecIdle /\ CleanupIdle /\ XtreamIdle /\ MatchInit

NextMatch == ShouldRecordReturns

SpecMatch == InitMatch /\ [][NextMatch]_vars

-----------------------------------------------------------------------------
(* Properties of the viewing registry *)

\* C1: for every key, start requests issued while an earlier start of the same key is
\* still pending spawn no second process: no two child processes of one key are ever
\* pending together.
C1_OneSpawnPerPendingKey ==
    \A p, q \in DOMAIN procs :
        (p # q /\ procs[p].key = procs[q].key)
            => ~(procs[p].st = "pending" /\ procs[q].st = "pending")

\* C2: the registry never holds more sessions than the port range is wide.
C2_RegistryWithinPoolWidth == Len(activeStreams) <= maxStreams

\* a step in which the start awaited by an evicting /stream/:channel request resolves
evictStartResolves(p) ==
    /\ p \in DOMAIN procs /\ p \in DOMAIN procs'
    /\ procs[p].route = "evict"
    /\ procs[p].st = "pending" /\ procs'[p].st = "resolved"

stoppedInStep ==
    {p \in DOMAIN procs : p \in DOMAIN procs' /\ procs'[p].terms = procs[p].terms + 1}

\* C3: an on-demand request that finds the registry full stops exactly one session, and
\* when its start has completed the registry holds at most maxStreams sessions.
C3_EvictsOneAndStaysWithinWidth ==
    [][ /\ Len(odWait') > Len(odWait) => Cardinality(stoppedInStep) = 1
        /\ \A p \in DOMAIN procs : evictStartResolves(p) => Len(activeStreams') <= maxStreams
      ]_vars

\* C4: stopStream is idempotent: no process is sent a second SIGTERM, with its second
\* force-kill timer, by a repeated stopStream.
C4_StopIdempotent == \A p \in DOMAIN procs : procs[p].terms <= 1

\* C5: a sweep of the idle reaper never stops a session whose key was passed to
\* trackClientConnect less than autoStopTimeout before the sweep, whatever the case of
\* the key's letters.
C5_RecentConnectNeverReaped ==
    [][ _checkAutoStop =>
          \A i \in 1..Len(activeStreams) :
             LET e == activeStreams[i] IN
             (e.channel \in DOMAIN lastConnect
                 /\ now - lastConnect[e.channel] < autoStopTimeout)
               => procs'[e.proc].terms = procs[e.proc].terms
      ]_vars

\* C6: a sweep stops every session older than autoStopTimeout whose key has had no
\* trackClientConnect for longer than autoStopTimeout, whether its presence record is
\* absent or stale.
C6_NoConnectReaped ==
    [][ _checkAutoStop =>
          \A i \in 1..Len(activeStreams) :
             LET e == activeStreams[i] IN
             (now - e.startedAt > autoStopTimeout
                 /\ (e.channel \in DOMAIN lastConnect
                        => now - lastConnect[e.channel] > autoStopTimeout))
               => procs'[e.proc].terms = procs[e.proc].terms + 1
      ]_vars

-----------------------------------------------------------------------------
(* Properties of the stream id codec *)

belowFirstOffset(user_id) == ~numGE(parseInt(user_id), QUALITY_OFFSET_720P)

requestedQualityOf(band) == IF band = "best" THEN "null" ELSE band

\* C7: for every base id below 10,000,000,000 and every band, decoding the id the
\* listing gives the entry returns the same base id and the same band, and two distinct
\* (base id, band) pairs are never listed under one id.
C7_CodecRoundTrip ==
    /\ (codecPhase = "decoded" /\ belowFirstOffset(codecStream.user_id))
           => /\ codecDecoded.channel = codecStream.user_id
              /\ codecDecoded.requestedQuality = requestedQualityOf(codecStream.band)
    /\ codecPhase = "decoded"
           => \A s, t \in {x \in CodecStreams : belowFirstOffset(x.user_id)} :
                  addStreamEntry(s, streamIdOffset(s.band))
                      = addStreamEntry(t, streamIdOffset(t.band)) => s = t

\* base id 12345 listed in band 720p60 as 10000012345 and decoded again
C7_Witness ==
    /\ codecPhase = "decoded"
    /\ codecStream = [user_id |-> <<1, 2, 3, 4, 5>>, band |-> "720p60"]
    /\ codecStreamId = <<1, 0, 0, 0, 0, 0, 1, 2, 3, 4, 5>>
    /\ codecDecoded = [channel |-> <<1, 2, 3, 4, 5>>, requestedQuality |-> "720p60"]

-----------------------------------------------------------------------------
(* Properties of the recording rule engine *)

\* the rule a PollRule step of poll i evaluates, if it evaluates one
evaluates(i, r) ==
    /\ i \in DOMAIN polls
    /\ polls[i].phase = "loop"
    /\ polls[i].idx = r
    /\ r \in DOMAIN RuleTable
    /\ polls' = [polls EXCEPT ![i].idx = @ + 1]

\* C8: the evaluation of a rule never stops, and never forgets, a recording of its
\* channel that another rule started.
C8_OnlyOwnerStops ==
    [][\A i \in DOMAIN polls : \A r \in DOMAIN RuleTable :
          LET key == toLowerCase(RuleTable[r].channel_login) IN
          (/\ evaluates(i, r)
           /\ key \in DOMAIN activeRecordings
           /\ activeRecordings[key].ruleId # RuleTable[r].id)
              => /\ key \in DOMAIN activeRecordings'
                 /\ activeRecordings'[key] = activeRecordings[key]
                 /\ recProcs'[activeRecordings[key].process]
                        = recProcs[activeRecordings[key].process]]_vars

\* an enabled rule whose criteria do not match has just been evaluated while another
\* rule's recording of its channel runs, and that recording has not been sent a stop
C8_Witness ==
    \E i \in DOMAIN polls :
        /\ polls[i].phase = "loop"
        /\ polls[i].idx > 1
        /\ LET rule == RuleTable[polls[i].idx - 1]
               key == toLowerCase(rule.channel_login)
           IN  /\ polls[i].rules[rule.id]
               /\ ~(polls[i].liveStreams[key].live
                      /\ shouldRecord(rule, polls[i].liveStreams[key]))
               /\ key \in DOMAIN activeRecordings
               /\ activeRecordings[key].ruleId # rule.id
               /\ recProcs[activeRecordings[key].process].terms = 0

\* C9: at most one recording process per channel exists at any time.
C9_OneRecordingPerChannel ==
    \A p, q \in DOMAIN recProcs : recProcs[p].channel = recProcs[q].channel => p = q

\* the second of two enabled matching rules of one channel has just been evaluated
\* while the recording the first one started runs as the channel's only process
C9_Witness ==
    \E i \in DOMAIN polls :
        /\ polls[i].phase = "loop"
        /\ polls[i].idx > 1
        /\ LET rule == RuleTable[polls[i].idx - 1]
               key == toLowerCase(rule.channel_login)
           IN  /\ polls[i].rules[rule.id]
               /\ polls[i].liveStreams[key].live
               /\ shouldRecord(rule, polls[i].liveStreams[key])
               /\ key \in DOMAIN activeRecordings
               /\ activeRecordings[key].ruleId # rule.id
               /\ Cardinality({p \in DOMAIN recProcs : recProcs[p].channel = key}) = 1

\* the rule's game filter matches the game: no filter, "*", or a case-insensitive
\* substring match in either direction
filterMatches(filter, game) ==
    \/ filter = NoGame
    \/ filter = <<"*">>
    \/ includes(lowerText(game), lowerText(filter))
    \/ includes(lowerText(filter), lowerText(game))

\* C10 as stated: a rule that is enabled, live and matching in a poll that began with
\* no recording of its channel has, once evaluated, a recording it owns.
C10_PollStartsOwnedRecording ==
    [][\A i \in DOMAIN polls : \A r \in DOMAIN RuleTable :
          LET rule == RuleTable[r]
              key == toLowerCase(rule.channel_login) IN
          (/\ evaluates(i, r)
           /\ polls[i].rules[rule.id]
           /\ polls[i].liveStreams[key].live
           /\ filterMatches(rule.game_name, polls[i].liveStreams[key].game_name)
           /\ key \notin polls[i].startActive)
              => /\ key \in DOMAIN activeRecordings'
                 /\ activeRecordings'[key].ruleId = rule.id]_vars

\* C10: evaluating an enabled rule whose channel is live and matches, at a moment when
\* no recording of the channel is active, spawns a recording process and registers it
\* with that rule's id.
C10_EvaluationStartsOwnedRecording ==
    [][\A i \in DOMAIN polls : \A r \in DOMAIN RuleTable :
          LET rule == RuleTable[r]
              key == toLowerCase(rule.channel_login) IN
          (/\ evaluates(i, r)
           /\ polls[i].rules[rule.id]
           /\ polls[i].liveStreams[key].live
           /\ filterMatches(rule.game_name, polls[i].liveStreams[key].game_name)
           /\ key \notin DOMAIN activeRecordings)
              => /\ key \in DOMAIN activeRecordings'
                 /\ activeRecordings'[key].ruleId = rule.id
                 /\ recSpawns' = recSpawns + 1
                 /\ activeRecordings'[key].process = recSpawns'
                 /\ recSpawns' \in DOMAIN recProcs'
                 /\ recordings'[recSpawns'] = "recording"]_vars

\* the rule with filter "valorant" has just been evaluated against a stream playing
\* "VALORANT" and owns the recording of its channel
C10_Witness ==
    \E i \in DOMAIN polls :
        /\ polls[i].phase = "loop"
        /\ polls[i].idx > 1
        /\ RuleTable[polls[i].idx - 1].game_name = <<"v","a","l","o","r","a","n","t">>
        /\ polls[i].rules[1]
        /\ polls[i].liveStreams["foo"] =
               [live |-> TRUE, game_name |-> <<"V","A","L","O","R","A","N","T">>]
        /\ "foo" \notin polls[i].startActive
        /\ "foo" \in DOMAIN activeRecordings
        /\ activeRecordings["foo"].ruleId = 1
        /\ activeRecordings["foo"].process \in DOMAIN recProcs

\* C11: when the rule that owns a channel's active recording is evaluated while the
\* channel is not live or its game does not match the rule's filter, the recording's
\* process has been sent SIGTERM when the evaluation ends (by this evaluation, unless an
\* earlier one already signalled it) and the recording stays in the active set; the
\* recording leaves the active set in the step in which its process closes.
C11_OwnerStopsThenCloseRemoves ==
    [][ /\ \A i \in DOMAIN polls : \A r \in DOMAIN RuleTable :
              LET rule == RuleTable[r]
                  key == toLowerCase(rule.channel_login) IN
              (/\ evaluates(i, r)
               /\ polls[i].rules[rule.id]
               /\ ~(polls[i].liveStreams[key].live
                      /\ filterMatches(rule.game_name, polls[i].liveStreams[key].game_name))
               /\ key \in DOMAIN activeRecordings
               /\ activeRecordings[key].ruleId = rule.id)
                  => LET p == activeRecordings[key].process IN
                     /\ recProcs'[p].killed
                     /\ recProcs'[p].terms =
                            IF recProcs[p].killed THEN recProcs[p].terms
                            ELSE recProcs[p].terms + 1
                     /\ activeRecordings' = activeRecordings
        /\ \A p \in DOMAIN recProcs :
              p \notin DOMAIN recProcs' => recProcs[p].channel \notin DOMAIN activeRecordings'
      ]_vars

\* the rule with filter "valorant" has just been evaluated against its channel playing
\* "Chess" while it owns the channel's recording, whose process has its SIGTERM and is
\* still in the active set
C11_Witness ==
    \E i \in DOMAIN polls :
        /\ polls[i].phase = "loop"
        /\ polls[i].idx > 1
        /\ RuleTable[polls[i].idx - 1].id = 1
        /\ polls[i].rules[1]
        /\ polls[i].liveStreams["foo"] =
               [live |-> TRUE, game_name |-> <<"C","h","e","s","s">>]
        /\ "foo" \in polls[i].startActive
        /\ "foo" \in DOMAIN activeRecordings
        /\ activeRecordings["foo"].ruleId = 1
        /\ recProcs[activeRecordings["foo"].process].killed
        /\ recProcs[activeRecordings["foo"].process].terms = 1

-----------------------------------------------------------------------------
(* Properties of admission and the port allocator over a range two ports wide *)

\* the registered sessions with no presence activity in the last 60 s
idleSessions ==
    {i \in 1..Len(activeStreams) :
        LET lower == toLowerCase(activeStreams[i].channel) IN
        \/ lower \notin DOMAIN clientConnections
        \/ now - clientConnections[lower].lastActivity >= recentActivityWindow}

\* C12: when /stream/:channel evicts at capacity, the one session it stops has the
\* earliest start time among the sessions without presence activity in the last 60 s;
\* only when every registered session had such activity has it the earliest start time
\* of all registered sessions.
C12_EvictsOldestIdle ==
    [][ Len(odWait') > Len(odWait) =>
          \E i \in 1..Len(activeStreams) :
             /\ stoppedInStep = {activeStreams[i].proc}
             /\ IF idleSessions # {}
                THEN /\ i \in idleSessions
                     /\ \A j \in idleSessions :
                            activeStreams[i].startedAt <= activeStreams[j].startedAt
                ELSE \A j \in 1..Len(activeStreams) :
                            activeStreams[i].startedAt <= activeStreams[j].startedAt
      ]_vars

\* an evicting request waits; the session it stopped had no presence activity for 60 s,
\* while a session that started no later had and was left alone
C12_Witness ==
    /\ odWait # <<>>
    /\ \E i, j \in 1..Len(activeStreams) :
          LET kept == activeStreams[i]
              victim == activeStreams[j] IN
          /\ i # j
          /\ kept.startedAt <= victim.startedAt
          /\ procs[kept.proc].terms = 0
          /\ procs[victim.proc].terms = 1
          /\ kept.channel \in DOMAIN clientConnections
          /\ now - clientConnections[kept.channel].lastActivity < recentActivityWindow
          /\ victim.channel \in DOMAIN clientConnections
          /\ now - clientConnections[victim.channel].lastActivity >= recentActivityWindow

C14_PortsRoundRobin ==
    /\ \A k \in DOMAIN procs :
          procs[k].port = serverConfig.streamPortStart + ((k - 1) % maxStreams)
    /\ \A i \in 1..Len(activeStreams) :
          activeStreams[i].port = procs[activeStreams[i].proc].port
    /\ nextPort \in serverConfig.streamPortStart..serverConfig.streamPortEnd
    /\ nextPort = serverConfig.streamPortStart + (spawnCount % maxStreams)

\* three starts over the range 9000..9001: the first process has exited and freed 9000,
\* the second holds 9001 and the third was given 9000 after the cursor wrapped
C14_Witness ==
    /\ maxStreams = 2
    /\ spawnCount = 3
    /\ 1 \notin DOMAIN procs
    /\ 2 \in DOMAIN procs /\ procs[2].port = 9001
    /\ 3 \in DOMAIN procs /\ procs[3].port = 9000
    /\ nextPort = 9001

-----------------------------------------------------------------------------
(* Properties of start failures, exits and stops *)

\* C15: when a pending start is rejected on a failure marker or on the startup timeout
\* its process has been killed, when its process closes before readiness the start is
\* rejected, and in each case the key is not in the registry afterwards.
C15_FailedStartLeavesNoSession ==
    [][ \A p \in DOMAIN procs :
          procs[p].st = "pending" =>
             /\ (p \in DOMAIN procs' /\ procs'[p].st = "rejected")
                   => /\ procs'[p].killed
                      /\ ~has(activeStreams', procs[p].key)
             /\ p \notin DOMAIN procs' => ~has(activeStreams', procs[p].key)
      ]_vars

\* C16: in the step in which a viewing process closes, whatever made it exit, the
\* registry loses the process's key and exactly one stream:ended event is emitted for
\* it, carrying that key and an exit code; events exist for closed processes only.
C16_ExitRemovesAndEmitsOnce ==
    [][ /\ \A p \in DOMAIN procs :
              p \notin DOMAIN procs' =>
                 /\ ~has(activeStreams', procs[p].key)
                 /\ p \notin DOMAIN streamEnded
                 /\ p \in DOMAIN streamEnded'
                 /\ Len(streamEnded'[p]) = 1
                 /\ streamEnded'[p][1].channel = procs[p].key
                 /\ streamEnded'[p][1].code \in ExitCodes
                 /\ \A q \in DOMAIN streamEnded : streamEnded'[q] = streamEnded[q]
        /\ DOMAIN streamEnded' = (1..spawnCount') \ DOMAIN procs'
      ]_vars

\* the session "a" was evicted for a request of "A": its process has closed with code 1,
\* "a" has left the registry, one stream:ended {"a", 1} was emitted, and "A" is registered
C16_Witness ==
    /\ 1 \in DOMAIN streamEnded
    /\ streamEnded[1] = <<[channel |-> "a", code |-> 1]>>
    /\ ~has(activeStreams, "a")
    /\ 2 \in DOMAIN procs
    /\ procs[2].route = "evict"
    /\ procs[2].key = "A"
    /\ has(activeStreams, "A")

\* C17: stopStream sends SIGTERM at once and arms one 5 s timer without waiting for the
\* exit; when that timer fires while the stopped process has still not closed, the
\* process is sent SIGKILL.
C17_ForceKillIffStillRunning ==
    [][ \A p \in DOMAIN procs :
          p \in DOMAIN procs' =>
             /\ procs'[p].terms = procs[p].terms + 1
                   => procs'[p].killTimers = procs[p].killTimers + 1
             /\ procs'[p].killTimers = procs[p].killTimers - 1
                   => procs'[p].sigkilled
      ]_vars

\* C18: when the server handles a shutdown signal, SIGTERM or SIGINT, every session live
\* at that moment has been sent a stop when the handler ends, the processes of the
\* registered viewing sessions and of the active recordings alike, and the server process
\* exits only after a handler has run.
C18_ShutdownStopsEverySession ==
    [][ /\ (serverState = "running" /\ serverState' # "running")
              => /\ \A i \in 1..Len(activeStreams) :
                       procs'[activeStreams[i].proc].terms
                           = procs[activeStreams[i].proc].terms + 1
                 /\ \A channelLogin \in DOMAIN activeRecordings :
                       recProcs'[activeRecordings[channelLogin].process].killed
        /\ serverState' = "exited" => serverState \in {"SIGTERM", "SIGINT", "exited"}
      ]_vars

-----------------------------------------------------------------------------
(* Properties of presence tracking *)

\* the reference count of a key, 0 without a record
countOf(cc, k) == IF toLowerCase(k) \in DOMAIN cc THEN cc[toLowerCase(k)].count ELSE 0

\* the records of the keys other than k's are the same in cc and dd
sameElsewhere(cc, dd, k) ==
    /\ DOMAIN dd \ {toLowerCase(k)} = DOMAIN cc \ {toLowerCase(k)}
    /\ \A x \in DOMAIN cc \ {toLowerCase(k)} : dd[x] = cc[x]

\* C19: on every reachable presence map and for every key, trackClientConnect raises
\* the key's reference count by one and sets last-activity to the current time,
\* trackClientDisconnect lowers the count by one unless it is zero or there is no record,
\* in which case it changes nothing, and no reference count is negative.
C19_ReferenceCounts ==
    /\ \A x \in DOMAIN clientConnections : clientConnections[x].count >= 0
    /\ \A k \in Keys :
          LET connected == trackClientConnect(clientConnections, k, now)
              disconnected == trackClientDisconnect(clientConnections, k, now) IN
          /\ countOf(connected, k) = countOf(clientConnections, k) + 1
          /\ connected[toLowerCase(k)].lastActivity = now
          /\ sameElsewhere(clientConnections, connected, k)
          /\ IF countOf(clientConnections, k) > 0
             THEN countOf(disconnected, k) = countOf(clientConnections, k) - 1
             ELSE disconnected = clientConnections
          /\ sameElsewhere(clientConnections, disconnected, k)

\* the client of session "a" has connected and disconnected: the record of "a" is down
\* to a count of zero, where a further disconnect leaves it
C19_Witness ==
    /\ "a" \in DOMAIN lastConnect
    /\ "a" \in DOMAIN clientConnections
    /\ clientConnections["a"].count = 0
    /\ has(activeStreams, "a")

-----------------------------------------------------------------------------
(* Properties of the game filter *)

\* C20: shouldRecord(rule, stream) is true when the rule has no game filter or the
\* filter is "*"; otherwise it is true exactly when, both lower-cased, the stream's game
\* contains the rule's game or the rule's game contains the stream's game.
C20_ShouldRecord ==
    matchCall.phase = "returned" =>
        LET filter == matchCall.rule.game_name
            game == matchCall.stream.game_name IN
        IF filter = NoGame \/ filter = <<"*">>
        THEN matchCall.result = TRUE
        ELSE matchCall.result =
                (\/ includes(lowerText(game), lowerText(filter))
                 \/ includes(lowerText(filter), lowerText(game)))

\* the filter "valorant" against a stream playing "Valo": the rule's game contains the
\* stream's game once both are lower-cased, and the call returned true
C20_Witness ==
    /\ matchCall.phase = "returned"
    /\ matchCall.rule.game_name = <<"v","a","l","o","r","a","n","t">>
    /\ matchCall.stream.game_name = <<"V","a","l","o">>
    /\ matchCall.result = TRUE

-----------------------------------------------------------------------------
(* Properties of startStream *)

\* C21: a startStream call for a key the registry holds answers alreadyRunning with
\* that session's port (its URL is built from the port) and leaves the child processes
\* with their emitted events, the spawn count, the port cursor and the registry as they
\* were.
C21_RunningKeyStartsNothing ==
    [][ \A k \in Keys :
          (has(activeStreams, k) /\ ApiStart(k, StartSpawns))
             => /\ apiReply' = [alreadyRunning |-> TRUE, channel |-> k,
                                port |-> get(activeStreams, k).port]
                /\ UNCHANGED <<procs, spawnCount, nextPort, activeStreams, streamEnded>>
      ]_vars

\* POST /api/stream/start for the registered key "a" was answered with the port of the
\* one process ever spawned, which still holds the registry's only session
C21_Witness ==
    /\ apiReply = [alreadyRunning |-> TRUE, channel |-> "a", port |-> 9000]
    /\ nextPort = 9001
    /\ spawnCount = 1
    /\ DOMAIN procs = {1}
    /\ Len(activeStreams) = 1
    /\ activeStreams[1].channel = "a"
    /\ activeStreams[1].proc = 1

-----------------------------------------------------------------------------
(* Properties of the settling of a start *)

\* the session, if any, that activeStreams holds for process p
sessionsOf(reg, p) == {i \in 1..Len(reg) : reg[i].proc = p}

\* C22: each startStream call settles exactly once: a process is pending exactly while it
\* has emitted neither stream:started nor stream:error, a resolved one has emitted one
\* stream:started and a rejected one one stream:error; and a signal that reaches a call
\* already settled changes neither its outcome nor its events and registers no session
\* for it
C22_SettlesOnce ==
    [][ \A p \in DOMAIN procs :
          /\ procs[p].st \in {"pending", "resolved", "rejected"}
          /\ procs[p].st = "pending" <=> procs[p].events = <<>>
          /\ procs[p].st = "resolved" <=> procs[p].events = <<"stream:started">>
          /\ procs[p].st = "rejected" <=> procs[p].events = <<"stream:error">>
          /\ (procs[p].st # "pending" /\ p \in DOMAIN procs')
                => /\ procs'[p].st = procs[p].st
                   /\ procs'[p].events = procs[p].events
                   /\ \A i \in sessionsOf(activeStreams', p) :
                         \E j \in sessionsOf(activeStreams, p) :
                             activeStreams'[i] = activeStreams[j]
      ]_vars

\* a failure marker reached a start that had already resolved: the process was killed,
\* and the call keeps its one stream:started and its session
C22_Witness ==
    \E p \in DOMAIN procs :
        /\ procs[p].st = "resolved" /\ procs[p].killed
        /\ procs[p].events = <<"stream:started">>
        /\ sessionsOf(activeStreams, p) # {}

\* process p is registered under its own key
registeredAs(reg, p) == \E i \in sessionsOf(reg, p) : reg[i].channel = procs[p].key

\* C23 as stated: whenever the fallback delay elapses on a pending start, the start
\* resolves as a registered session, whatever its error output holds
C23_FallbackResolvesWhateverStderr ==
    [][ \A p \in DOMAIN procs :
          (procs[p].st = "pending" /\ FallbackTimer(p))
             => /\ procs'[p].st = "resolved"
                /\ registeredAs(activeStreams', p)
      ]_vars

\* C23: when the fallback delay elapses on a pending start (no readiness marker, no
\* failure marker, not exited), the start resolves as a registered session with one
\* stream:started if its error output so far does not contain "error"; if it does, the
\* start stays pending and the registry is unchanged
C23_FallbackResolvesUnlessStderrError ==
    [][ \A p \in DOMAIN procs :
          (procs[p].st = "pending" /\ FallbackTimer(p))
             => IF procs[p].errorHasError
                THEN /\ procs'[p].st = "pending"
                     /\ procs'[p].events = <<>>
                     /\ activeStreams' = activeStreams
                ELSE /\ procs'[p].st = "resolved"
                     /\ procs'[p].events = <<"stream:started">>
                     /\ registeredAs(activeStreams', p)
      ]_vars

\* the fallback delay has elapsed on a start whose error output contains "error": the
\* start is still pending, with its startup timeout armed, and is not registered
C23_Witness ==
    \E p \in DOMAIN procs :
        /\ procs[p].st = "pending" /\ procs[p].errorHasError
        /\ ~procs[p].fallbackArmed /\ procs[p].timeout
        /\ sessionsOf(activeStreams, p) = {}

\* the startStream call that spawned process p has not settled
startPending(p) == p \in DOMAIN procs /\ procs[p].st = "pending"

\* C24: every startStream call that spawned a process eventually settles: while it is
\* pending its startup timeout is armed, and once pending it is later resolved, rejected
\* or closed (a close rejects a pending call)
C24_EveryStartSettles ==
    /\ [](\A p \in DOMAIN procs : procs[p].st = "pending" => timeoutArmed(procs[p]))
    /\ \A p \in 1..StartSpawns : startPending(p) ~> ~startPending(p)

\* every call of the run has spawned and all are settled, one of them rejected with its
\* process killed and its timer gone
C24_Witness ==
    /\ spawnCount = StartSpawns
    /\ \A p \in DOMAIN procs : procs[p].st # "pending" /\ ~procs[p].timeout
    /\ \E p \in DOMAIN procs :
          /\ procs[p].st = "rejected" /\ procs[p].killed
          /\ procs[p].events = <<"stream:error">>

-----------------------------------------------------------------------------
(* Properties of the presence records *)

\* the record of key k is what a connect or a disconnect of k makes of it
changedByPresenceCall(k) ==
    \/ clientConnections'[k] = trackClientConnect(clientConnections, k, now)[k]
    \/ clientConnections'[k] = trackClientDisconnect(clientConnections, k, now)[k]

\* the sweep of this step stops the session registered under exactly the key k
reapedInThisStep(k) ==
    /\ _checkAutoStop
    /\ \E i \in 1..Len(activeStreams) :
          /\ activeStreams[i].channel = k
          /\ shouldAutoStop(activeStreams[i], clientConnections, now)

\* C25 as stated: a presence record is changed only by connect/disconnect calls and is
\* never deleted
C25_PresenceNeverDeleted ==
    [][ \A k \in DOMAIN clientConnections :
          /\ k \in DOMAIN clientConnections'
          /\ clientConnections'[k] # clientConnections[k] => changedByPresenceCall(k)
      ]_vars

\* C25: a presence record, once created, is changed only by connect/disconnect calls
\* for its key, and it is deleted only by the idle reaper, in the sweep that stops the
\* session registered under exactly that key
C25_PresenceDeletedOnlyByReaper ==
    [][ \A k \in DOMAIN clientConnections :
          IF k \in DOMAIN clientConnections'
          THEN clientConnections'[k] # clientConnections[k] => changedByPresenceCall(k)
          ELSE reapedInThisStep(k)
      ]_vars

\* a client had connected to "a", creating its presence record; the reaper has since
\* stopped the session registered under "a", whose process still runs with the stop
\* signal sent, and the record is gone
C25_Witness ==
    /\ "a" \in DOMAIN lastConnect
    /\ "a" \notin DOMAIN clientConnections
    /\ \E i \in 1..Len(activeStreams) :
          /\ activeStreams[i].channel = "a"
          /\ procs[activeStreams[i].proc].terms > 0
    /\ ~sweepDue /\ now >= autoStopTimeout

-----------------------------------------------------------------------------
(* Properties of the retention sweep *)

\* a row the sweep is to delete: past the cutoff and no longer recording
expiredRecord(r) == r.started_at < SweepCutoff /\ r.status # "recording"

\* a file the sweep is to delete: older than the cutoff and referenced by no row
orphanedFile(table, dir, f) ==
    f \in DOMAIN dir /\ dir[f].mtimeMs < SweepCutoff /\ ~getRecordingByFilepath(table, f)

\* deleting file f of directory dir would fail
unlinkFails(dir, f) == f \in DOMAIN dir /\ dir[f].locked

rowsOf(table) == {table[i] : i \in 1..Len(table)}

\* C26: when deleting one expired recording's file fails during a sweep, the failure
\* is logged and the sweep still deletes every other expired record with its file and
\* every other orphaned file
C26_SweepContinuesAfterFailure ==
    [][ (/\ CleanupOldRecordings
         /\ \E r \in rowsOf(cleanup.table) :
                expiredRecord(r) /\ unlinkFails(cleanup.dir, r.filepath))
          => /\ \E i \in 1..Len(cleanup'.log) : cleanup'.log[i] = <<"Cleanup error">>
             /\ \A r \in rowsOf(cleanup.table) :
                   (expiredRecord(r) /\ ~unlinkFails(cleanup.dir, r.filepath))
                      => /\ r \notin rowsOf(cleanup'.table)
                         /\ r.filepath \notin DOMAIN cleanup'.dir
             /\ \A f \in DOMAIN cleanup.dir :
                   (orphanedFile(cleanup.table, cleanup.dir, f) /\ ~cleanup.dir[f].locked)
                      => f \notin DOMAIN cleanup'.dir
      ]_vars

\* C27: a sweep leaves every row with status "recording" in the table and its output
\* file in the directory, whatever their age; every row it deletes is past the cutoff
\* and no longer recording; every file it deletes is the output file of a row it
\* deletes, or is older than the cutoff and referenced by no row
C27_SweepSparesRecordingInProgress ==
    [][ CleanupOldRecordings =>
          /\ \A r \in rowsOf(cleanup.table) :
                r.status = "recording"
                   => /\ r \in rowsOf(cleanup'.table)
                      /\ r.filepath \in DOMAIN cleanup.dir
                            => /\ r.filepath \in DOMAIN cleanup'.dir
                               /\ cleanup'.dir[r.filepath] = cleanup.dir[r.filepath]
          /\ \A r \in rowsOf(cleanup.table) \ rowsOf(cleanup'.table) : expiredRecord(r)
          /\ \A f \in DOMAIN cleanup.dir \ DOMAIN cleanup'.dir :
                \/ \E r \in rowsOf(cleanup.table) \ rowsOf(cleanup'.table) : r.filepath = f
                \/ orphanedFile(cleanup.table, cleanup.dir, f)
          /\ rowsOf(cleanup'.table) \subseteq rowsOf(cleanup.table)
          /\ \A f \in DOMAIN cleanup'.dir :
                f \in DOMAIN cleanup.dir /\ cleanup'.dir[f] = cleanup.dir[f]
      ]_vars

\* a sweep has run and deleted an expired recording with its file and an orphaned file,
\* while a recording started before the cutoff and still in progress keeps its row and
\* its file, itself older than the cutoff
C27_Witness ==
    /\ cleanup.phase = "done"
    /\ \E r \in rowsOf(cleanup.table) :
          /\ r.status = "recording" /\ r.started_at < SweepCutoff
          /\ r.filepath \in DOMAIN cleanup.dir
          /\ cleanup.dir[r.filepath].mtimeMs < SweepCutoff
    /\ \E i, j \in 1..Len(cleanup.log) :
          /\ cleanup.log[i][1] = "Deleted"
          /\ cleanup.log[j][1] = "Deleted orphaned file"

-----------------------------------------------------------------------------
(* Properties of a start on a busy port *)

\* the port handed to process p is held by a process spawned before it and still running
portBusy(p) == \E q \in DOMAIN procs : q < p /\ procs[q].port = procs[p].port

\* the step spawns a process for key k on the port the allocator hands out next
retriesStart(k) ==
    /\ spawnCount' = spawnCount + 1
    /\ spawnCount' \in DOMAIN procs'
    /\ procs'[spawnCount'].key = k
    /\ procs'[spawnCount'].port = nextPort

\* C28: when a pending start fails because the streamlink process, handed a busy port,
\* exits with an error, the caller starts the key again on the next port of the
\* allocator in the continuation of the failed call
C28_BusyPortIsRetried ==
    [][ \A p \in DOMAIN procs :
          (/\ procs[p].st = "pending"
           /\ portBusy(p)
           /\ \E code \in ExitCodes \ {0} : ProcClose(p, code))
             => retriesStart(procs[p].key)
      ]_vars

-----------------------------------------------------------------------------
(* Properties of the end of a recording *)

-----------------------------------------------------------------------------
(* Properties of recordings beside viewing sessions *)

\* the state of the recordings: the active map, the processes and the persisted records
recordingState == <<activeRecordings, recProcs, recSpawns, recordings>>

\* C30: a step that starts, stops or ends a recording leaves the viewing registry, the
\* port cursor, the presence records and the viewing processes unchanged; the idle
\* reaper and the admission controller leave every recording as it is; and the
\* admission controller evicts exactly when the registry alone fills the port range,
\* however many recordings are running
C30_RecordingsApartFromViewing ==
    [][ /\ recordingState' # recordingState
           => UNCHANGED <<activeStreams, nextPort, clientConnections, procs, spawnCount>>
        /\ (\/ _checkAutoStop
            \/ \E k \in Keys : OnDemandRequest(k, MixedSpawns)
            \/ OnDemandResume)
           => UNCHANGED recordingState
        /\ \A k \in Keys :
              (OnDemandRequest(k, MixedSpawns) /\ ~isStreamActive(k))
                 => (odWait' # odWait <=> Len(activeStreams) >= maxStreams)
      ]_vars

\* the reaper has stopped the only viewing session ever started while a recording was
\* running; the recording is still active and its process has been sent no signal
C30_Witness ==
    /\ spawnCount = 1 /\ odWait = <<>>
    /\ now >= autoStopTimeout
    /\ \E i \in 1..Len(activeStreams) : procs[activeStreams[i].proc].terms > 0
    /\ \E c \in DOMAIN activeRecordings :
          LET p == activeRecordings[c].process IN
          /\ p \in DOMAIN recProcs
          /\ recProcs[p].terms = 0 /\ ~recProcs[p].killed
          /\ recordings[p] = "recording"
    /\ nextPort = streamPortStart

-----------------------------------------------------------------------------
(* Properties of the reverse lookup of the /live route *)

\* the step ends the live-status refresh of a /live request
refreshEnds ==
    \/ \E liveStreams \in SUBSET ResolveIds : LiveRefreshed(liveStreams)
    \/ LiveRefreshFailed

\* C31: a base id that is not in the reverse lookup is refreshed once, and when the
\* base id is still unknown after the refresh the handler starts no process for it
C31_UnresolvedIdStartsNothing ==
    [][ refreshEnds
          => /\ xtream.refreshes = 1
             /\ xtream.channel \notin DOMAIN xtream'.userIdToChannelMap
                   => /\ spawnCount' = spawnCount
                      /\ \A p \in DOMAIN procs' : procs'[p].key # xtream.channel
      ]_vars

-----------------------------------------------------------------------------
(* Properties of the registry and its processes *)

\* C32: no two sessions of the viewing registry hold the same port
C32_RegistryPortsDistinct ==
    \A i, j \in 1..Len(activeStreams) :
        i # j => activeStreams[i].port # activeStreams[j].port

\* C33: every viewing process whose start resolved and which has not exited is the
\* process of the session registered under its key
C33_ResolvedProcessIsRegistered ==
    \A p \in DOMAIN procs :
        procs[p].st = "resolved" => registeredAs(activeStreams, p)

\* C34: the exit of a viewing process removes no session that belongs to another
\* process
C34_ExitRemovesOwnSessionOnly ==
    [][ \A p \in DOMAIN procs : \A code \in ExitCodes :
          ProcClose(p, code)
             => \A i \in 1..Len(activeStreams) :
                   activeStreams[i].proc # p
                      => \E j \in 1..Len(activeStreams') : activeStreams'[j] = activeStreams[i]
      ]_vars

-----------------------------------------------------------------------------
(* Properties of the window between a stop and the exit *)

\* the session e belongs to a process that was sent a stop and has not exited
terminating(e) == e.proc \in DOMAIN procs /\ procs[e.proc].terms > 0

\* C35: between stopStream(key) and the exit of the stopped process the session stays
\* in the registry, and a start request for the key in that window is answered with
\* the terminating session and spawns no process
C35_StoppedSessionStaysUntilExit ==
    [][ \A i \in 1..Len(activeStreams) :
          terminating(activeStreams[i])
             => /\ activeStreams[i].proc \in DOMAIN procs'
                   => \E j \in 1..Len(activeStreams') : activeStreams'[j] = activeStreams[i]
                /\ (\/ ApiStart(activeStreams[i].channel, MaxSpawns)
                    \/ OnDemandRequest(activeStreams[i].channel, MaxSpawns))
                   => UNCHANGED <<procs, spawnCount, nextPort, odWait>>
      ]_vars

\* a timer of stopStream has run out in this step after its process exited
exitedTimerFires ==
    \E p \in DOMAIN staleTimers :
        p \notin DOMAIN staleTimers' \/ staleTimers'[p].n < staleTimers[p].n

\* C36: the forced-kill timer of stopStream(key) only ever signals the process that was
\* stopped: a process is sent SIGKILL only by a timer of a stop of its own, and a timer
\* whose process has exited signals nothing, whatever session the key holds by then
C36_ForceKillOnlyStoppedProcess ==
    [][ /\ \A q \in DOMAIN procs \cap DOMAIN procs' :
              procs'[q].sigkilled /\ ~procs[q].sigkilled
                 => procs[q].terms > 0 /\ procs'[q].killTimers = procs[q].killTimers - 1
        /\ exitedTimerFires => procs' = procs /\ activeStreams' = activeStreams
      ]_vars

\* the stopped process has exited, its timer is still pending, and the key holds the
\* session of a newer process that is running and has been sent nothing
C36_Witness_NewSessionInWindow ==
    \E p \in DOMAIN staleTimers :
        /\ has(activeStreams, staleTimers[p].channel)
        /\ LET q == get(activeStreams, staleTimers[p].channel).proc
           IN /\ q # p /\ q \in DOMAIN procs
              /\ ~procs[q].sigkilled /\ procs[q].terms = 0

\* ---- The events of a start that fails ----

\* the start of p was rejected by a failure marker or by the startup timeout: both kill
\* the process, which is still to close
failedStart(pr) == pr.st = "rejected" /\ pr.killed

\* C37: a start that fails by failure marker or startup timeout has emitted exactly one
\* event, stream:error, by the time its process is killed; it emits nothing more while
\* the process runs, and the step in which the killed process closes emits the
\* stream:ended of its key: stream:error, then stream:ended, and no stream:started
C37_FailedStartErrorThenEnded ==
    [][ \A p \in DOMAIN procs :
          failedStart(procs[p])
             => /\ procs[p].events = <<"stream:error">>
                /\ p \notin DOMAIN streamEnded
                /\ p \in DOMAIN procs' => procs'[p].events = procs[p].events
                /\ p \notin DOMAIN procs'
                      => /\ p \in DOMAIN streamEnded'
                         /\ Len(streamEnded'[p]) = 1
                         /\ streamEnded'[p][1].channel = procs[p].key
      ]_vars

\* a start was rejected by a failure marker or the timeout: its process is killed and not
\* yet closed, stream:error is its only event, and the key was never registered for it
C37_Witness_ErrorBeforeEnded ==
    \E p \in DOMAIN procs :
        /\ failedStart(procs[p])
        /\ procs[p].events = <<"stream:error">>
        /\ ~has(activeStreams, procs[p].key)

\* ---- Recordings whose rule is switched off or deleted ----

\* the rule that started the recording of key is disabled or deleted by now
ownerOff(key) ==
    LET r == activeRecordings[key].ruleId IN r \notin ruleRows \/ ~ruleEnabled[r]

\* a poll in flight read the owner of the recording of key as an enabled rule
ownerReadEnabled(key) ==
    \E i \in DOMAIN polls : polls[i].rules[activeRecordings[key].ruleId]

\* this step sends the recording of key no signal and lets its entry go only together
\* with its process (close or error of the process)
leftToItsProcess(key) ==
    LET p == activeRecordings[key].process
    IN  IF p \in DOMAIN recProcs'
        THEN /\ recProcs'[p] = recProcs[p]
             /\ key \in DOMAIN activeRecordings'
             /\ activeRecordings'[key] = activeRecordings[key]
        ELSE key \notin DOMAIN activeRecordings'

\* C38 as stated: once the rule that owns an active recording is disabled or deleted,
\* no step of a rule poll stops that recording; it ends only with its process
C38_NoPollStopsOrphanedRecording ==
    [][ \A key \in DOMAIN activeRecordings : ownerOff(key) => leftToItsProcess(key) ]_vars

\* C38: once the rule that owns an active recording is disabled or deleted, no
\* rule poll that read the rules after that stops the recording; a poll already in
\* flight that read the rule as enabled still can
C38_NoLaterPollStopsOrphanedRecording ==
    [][ \A key \in DOMAIN activeRecordings :
          ownerOff(key) /\ ~ownerReadEnabled(key) => leftToItsProcess(key) ]_vars

\* a poll that found every channel offline has gone through all the rules, among them
\* the deleted owner of the recording of "bar" and the disabled owner of the recording
\* of "foo"; both recordings run on and have been sent nothing
C38_Witness_OrphansSurvivePoll ==
    /\ DOMAIN activeRecordings = {"bar", "foo"}
    /\ activeRecordings["bar"].ruleId \notin ruleRows
    /\ activeRecordings["foo"].ruleId \in ruleRows
    /\ ~ruleEnabled[activeRecordings["foo"].ruleId]
    /\ \E i \in DOMAIN polls :
          /\ polls[i].phase = "loop"
          /\ polls[i].idx > Len(RuleTable)
          /\ \A c \in Channels : ~polls[i].liveStreams[c].live
    /\ \A key \in DOMAIN activeRecordings :
          recProcs[activeRecordings[key].process].terms = 0

\* ---- A rule poll whose live-status fetch failed ----

\* poll i is in its loop and about to evaluate a rule
evaluating(i) == polls[i].phase = "loop" /\ polls[i].idx <= Len(RuleTable)

C40_ActiveIffRecordingStatus ==
    serverState # "exited" =>
       /\ \A key \in DOMAIN activeRecordings :
             recordings[activeRecordings[key].process] = "recording"
       /\ \A id \in DOMAIN recordings :
             recordings[id] = "recording"
                => \E key \in DOMAIN activeRecordings : activeRecordings[key].process = id

====
